---- MODULE Spec2Model ----
(***************************************************************************)
(* Templated-SQL grammar extension and round-trip verifier of              *)
(* sql_pattern/pattern_verify.py.                                          *)
(*                                                                         *)
(* A text is a sequence of pieces (lexemes and white space).  The          *)
(* tokenizer classifies each lexeme; the parser is the recursive descent   *)
(* of DTMySQL.Parser over the token sequence, threading the parser's       *)
(* mutable field opt_block_in_clause and the names of the active parsing   *)
(* frames (what inspect.stack() shows to _parse_opt_block).                *)
(***************************************************************************)
EXTENDS Integers, Sequences, FiniteSets, TLC

(* ------------------------------------------------------------------ *)
(* OptBlockInClause and the two lookup tables                          *)
(* ------------------------------------------------------------------ *)
EXPRESSION == 0
PROJECTION == 1
GROUP_BY == 2
ORDER_BY == 3

\* As parse_caller_to_clause_dict, without the entry of _parse_projections.
parse_caller_to_clause_dict_without_projections(frame) ==
    CASE frame = "_parse_group" -> GROUP_BY
      [] frame = "_parse_order" -> ORDER_BY
      [] OTHER -> 0 - 1

\* parse_caller_to_clause_dict.get(frame): -1 stands for None
parse_caller_to_clause_dict(frame) ==
    CASE frame = "_parse_projections" -> PROJECTION
      [] frame = "_parse_group" -> GROUP_BY
      [] frame = "_parse_order" -> ORDER_BY
      [] OTHER -> -1

\* opt_func_to_class_dict
opt_func_to_class_dict(func_name) ==
    CASE func_name = "OPTIONAL" -> "OptionalFunc"
      [] func_name = "REQUIRED" -> "RequiredFunc"
      [] func_name = "LOOP" -> "LoopFunc"
      [] OTHER -> "None"

(* ------------------------------------------------------------------ *)
(* Tokenizer (MySQL.Tokenizer, inherited unchanged by DTMySQL)          *)
(* ------------------------------------------------------------------ *)
\* Back-quoted identifiers of the texts that are checked, with their content
\* (the back quote is written ^).
QuotedLexemes == {"^select^", "^b^"}

Unquote(lx) ==
    CASE lx = "^select^" -> "select"
      [] lx = "^b^" -> "b"
      [] OTHER -> lx

Quote(name) ==
    CASE name = "select" -> "^select^"
      [] name = "b" -> "^b^"
      [] OTHER -> name

\* The token type of one lexeme.  Keywords are case-insensitive: both
\* spellings of SELECT that occur are listed.
TokenType(lx) ==
    CASE lx \in QuotedLexemes -> "IDENTIFIER"
      [] lx \in {"SELECT", "select"} -> "SELECT"
      [] lx = "FROM" -> "FROM"
      [] lx = "WHERE" -> "WHERE"
      [] lx = "GROUP BY" -> "GROUP_BY"
      [] lx = "ORDER BY" -> "ORDER_BY"
      [] lx = "AS" -> "ALIAS"
      [] lx = "ASC" -> "ASC"
      [] lx = "DESC" -> "DESC"
      [] lx = "AND" -> "AND"
      [] lx = "=" -> "EQ"
      [] lx = ">" -> "GT"
      [] lx = "?" -> "PLACEHOLDER"
      [] lx = "," -> "COMMA"
      [] lx = "(" -> "L_PAREN"
      [] lx = ")" -> "R_PAREN"
      [] lx = "[" -> "L_BRACKET"
      [] lx = "]" -> "R_BRACKET"
      [] OTHER -> "VAR"

\* Token.text: the content of a quoted identifier, else the lexeme itself.
TokenText(lx) == IF lx \in QuotedLexemes THEN Unquote(lx) ELSE lx

\* Tokenizer.SINGLE_TOKENS values plus SELECT, minus IDENTIFIER
RESERVED_TOKENS ==
    {"SELECT", "COMMA", "L_PAREN", "R_PAREN", "L_BRACKET", "R_BRACKET",
     "EQ", "GT", "PLACEHOLDER"}

\* The token types of Parser.ID_VAR_TOKENS (= ALIAS_TOKENS) that occur.
ID_VAR_TOKENS == {"VAR", "ASC", "DESC"}

INVALID_FUNC_NAME_TOKENS == {"IDENTIFIER", "STRING"}

\* The type of the token at pos, "EOF" past the end (self._curr is None).
Curr(toks, pos) == IF pos <= Len(toks) THEN TokenType(toks[pos]) ELSE "EOF"

CurrText(toks, pos) == IF pos <= Len(toks) THEN TokenText(toks[pos]) ELSE ""

(* ------------------------------------------------------------------ *)
(* AST nodes and parse results                                          *)
(* ------------------------------------------------------------------ *)
NoNode == [k |-> "None"]

Identifier(name, quoted) == [k |-> "Identifier", name |-> name, quoted |-> quoted]

Ok(node, pos, cl) == [st |-> "ok", node |-> node, pos |-> pos, cl |-> cl]

\* The parse method returned None without consuming anything.
Non(pos, cl) == [st |-> "none", node |-> NoNode, pos |-> pos, cl |-> cl]

\* An exception left the parse method (ParseError, AttributeError).
Err(pos, cl) == [st |-> "err", node |-> NoNode, pos |-> pos, cl |-> cl]

\* Items of a list result (of _parse_csv), with the position reached.
OkList(items, pos, cl) == [st |-> "ok", items |-> items, pos |-> pos, cl |-> cl]

ErrList(pos, cl) == [st |-> "err", items |-> <<>>, pos |-> pos, cl |-> cl]

(* ------------------------------------------------------------------ *)
(* Macro node classes: arg_types and Expression.error_messages          *)
(* ------------------------------------------------------------------ *)
\* As OptFuncArgTypes, had the group classes declared "this" optional, the way
\* OptBlock declares "blocks".
OptFuncArgTypesOptional == [this |-> FALSE]

\* OptionalFunc / RequiredFunc / LoopFunc: arg_types = {"this": True}
OptFuncArgTypes == [this |-> TRUE]

\* OptBlock: arg_types = {"this": True, "blocks": False}
OptBlockArgTypes == [this |-> TRUE, blocks |-> FALSE]

\* Parser.expression -> validate_expression: an argument that arg_types
\* marks mandatory must be neither None nor an empty list, else raise_error
\* raises at once (the parser's error level is IMMEDIATE).
ValidOptFunc(args) == ~(OptFuncArgTypes.this /\ args = <<>>)

ValidOptBlock(hasName, blocks) ==
    /\ ~(OptBlockArgTypes.this /\ ~hasName)
    /\ ~(OptBlockArgTypes.blocks /\ blocks = <<>>)

(* ------------------------------------------------------------------ *)
(* Clause context from the call stack (_parse_opt_block, lines 178-184) *)
(* ------------------------------------------------------------------ *)
\* stk lists the active parsing frames, outermost first.  inspect.stack()
\* lists them innermost first and the loop stops at the first frame the
\* table knows: that is the last such frame of stk.
ClauseFromStack(stk) ==
    LET known == {i \in 1..Len(stk) : parse_caller_to_clause_dict(stk[i]) # -1}
    IN IF known = {} THEN EXPRESSION
       ELSE parse_caller_to_clause_dict(stk[CHOOSE i \in known : \A j \in known : j <= i])

(* ------------------------------------------------------------------ *)
(* Parser                                                               *)
(* ------------------------------------------------------------------ *)
\* _parse_id_var(any_token): a quoted identifier; else, with any_token,
\* any token that is not reserved (_advance_any); else a token of
\* ID_VAR_TOKENS.
ParseIdVar(toks, pos, cl, any_token) ==
    LET t == Curr(toks, pos)
    IN IF t = "IDENTIFIER"
       THEN Ok(Identifier(CurrText(toks, pos), TRUE), pos + 1, cl)
       ELSE IF any_token
            THEN IF t # "EOF" /\ t \notin RESERVED_TOKENS
                 THEN Ok(Identifier(CurrText(toks, pos), FALSE), pos + 1, cl)
                 ELSE Non(pos, cl)
            ELSE IF t \in ID_VAR_TOKENS
                 THEN Ok(Identifier(CurrText(toks, pos), FALSE), pos + 1, cl)
                 ELSE Non(pos, cl)

\* A binary node; Binary.arg_types makes both operands mandatory.
Binary(kind, l, r) ==
    IF l.st # "ok" \/ r.st # "ok" THEN Err(r.pos, r.cl)
    ELSE Ok([k |-> kind, this |-> l.node, expression |-> r.node], r.pos, r.cl)

\* The parser's state cl: its field opt_block_in_clause, and trace, the
\* record of each use of the field: which macro, at which token, read or
\* set which clause.
ParserState(clause) == [opt_block_in_clause |-> clause, trace |-> <<>>]

Traced(cl, macro, at, clause) ==
    [cl EXCEPT !.trace = Append(@, [macro |-> macro, at |-> at, clause |-> clause])]

\* Call(method, arg, toks, pos, cl, stk): the parser method of that name
\* applied at token pos, with the parser's state cl and the active frames
\* stk.  arg is what the method is handed besides.
RECURSIVE Call(_, _, _, _, _, _)

\* The value of F at the value of x: x is evaluated once, as an assignment
\* to a local variable is.
Bind(x, F(_)) == CHOOSE v \in {F(r) : r \in {x}} : TRUE

\* _parse_tokens(parse_method, {GT: ...}): the rest of a left-associative
\* chain whose left operand is parsed.
ComparisonRest(left, toks, stk) ==
    IF left.st = "err" THEN left
    ELSE IF Curr(toks, left.pos) = "GT"
         THEN Bind(Call("_parse_column", <<>>, toks, left.pos + 1, left.cl, stk),
                   LAMBDA r : IF r.st = "err" THEN r
                              ELSE Call("comparison_rest", Binary("GT", left, r),
                                        toks, r.pos, r.cl, stk))
         ELSE left

\* _parse_comparison (_parse_range and below add nothing for these texts)
ParseComparison(toks, pos, cl, stk) ==
    Bind(Call("_parse_column", <<>>, toks, pos, cl, stk),
         LAMBDA l : Call("comparison_rest", l, toks, l.pos, l.cl, stk))

\* _parse_tokens(parse_method, {EQ: ...})
EqualityRest(left, toks, stk) ==
    IF left.st = "err" THEN left
    ELSE IF Curr(toks, left.pos) = "EQ"
         THEN Bind(Call("_parse_comparison", <<>>, toks, left.pos + 1, left.cl, stk),
                   LAMBDA r : IF r.st = "err" THEN r
                              ELSE Call("equality_rest", Binary("EQ", left, r),
                                        toks, r.pos, r.cl, stk))
         ELSE left

ParseEquality(toks, pos, cl, stk) ==
    Bind(Call("_parse_comparison", <<>>, toks, pos, cl, stk),
         LAMBDA l : Call("equality_rest", l, toks, l.pos, l.cl, stk))

ConjunctionRest(left, toks, stk) ==
    IF left.st = "err" THEN left
    ELSE IF Curr(toks, left.pos) = "AND"
         THEN Bind(Call("_parse_equality", <<>>, toks, left.pos + 1, left.cl, stk),
                   LAMBDA r : IF r.st = "err" THEN r
                              ELSE Call("conjunction_rest", Binary("And", left, r),
                                        toks, r.pos, r.cl, stk))
         ELSE left

ParseConjunction(toks, pos, cl, stk) ==
    Bind(Call("_parse_equality", <<>>, toks, pos, cl, stk),
         LAMBDA l : Call("conjunction_rest", l, toks, l.pos, l.cl, stk))

\* _parse_assignment -> _parse_disjunction -> _parse_conjunction -> ...
ParseAssignment(toks, pos, cl, stk) ==
    Call("_parse_conjunction", <<>>, toks, pos, cl, stk)

\* _parse_alias(this): an alias needs no AS: any token of ALIAS_TOKENS after
\* the expression is taken as one.  Alias.arg_types makes "this" mandatory.
ParseAlias(this, toks) ==
    IF this.st = "err" THEN this
    ELSE LET any_token == Curr(toks, this.pos) = "ALIAS"
             p1 == IF any_token THEN this.pos + 1 ELSE this.pos
             alias == ParseIdVar(toks, p1, this.cl, any_token)
         IN IF alias.st = "ok"
            THEN IF this.st = "ok"
                 THEN Ok([k |-> "Alias", this |-> this.node, alias |-> alias.node],
                         alias.pos, this.cl)
                 ELSE Err(alias.pos, this.cl)
            ELSE [this EXCEPT !.pos = p1]

\* _parse_expression = _parse_alias(_parse_assignment())
ParseExpression(toks, pos, cl, stk) ==
    Bind(Call("_parse_assignment", <<>>, toks, pos, cl, stk),
         LAMBDA this : ParseAlias(this, toks))

\* The end of _parse_ordered: ASC and DESC after the expression.
\* desc = _match(DESC) or (asc and False): True, False (ASC written) or None.
OrderedOf(this, toks) ==
    IF this.st # "ok" THEN this
    ELSE LET asc == Curr(toks, this.pos) = "ASC"
             p1 == IF asc THEN this.pos + 1 ELSE this.pos
             isDesc == Curr(toks, p1) = "DESC"
             p2 == IF isDesc THEN p1 + 1 ELSE p1
             desc == IF isDesc THEN "True" ELSE IF asc THEN "False" ELSE "None"
         IN Ok([k |-> "Ordered", this |-> this.node, desc |-> desc], p2, this.cl)

\* _parse_ordered: an assignment, then ASC and DESC.
ParseOrdered(toks, pos, cl, stk) ==
    Bind(Call("_parse_assignment", <<>>, toks, pos, cl, stk),
         LAMBDA this : OrderedOf(this, toks))

\* As CsvRest, had the loop put each new item in front of the list.
CsvRestPrepending(acc, toks, pos, cl, stk) ==
    IF Curr(toks, pos) = "COMMA"
    THEN Bind(Call(acc.m, <<>>, toks, pos + 1, cl, stk),
              LAMBDA r :
                 IF r.st = "err" THEN ErrList(r.pos, r.cl)
                 ELSE Call("csv_rest",
                           [acc EXCEPT !.items = IF r.st = "ok" THEN <<r.node>> \o @
                                                 ELSE @],
                           toks, r.pos, r.cl, stk))
    ELSE OkList(acc.items, pos, cl)

\* _parse_csv(parse_method), the loop: a None result is skipped, not an
\* error.  acc holds the parse method m and the items so far.
CsvRest(acc, toks, pos, cl, stk) ==
    IF Curr(toks, pos) = "COMMA"
    THEN Bind(Call(acc.m, <<>>, toks, pos + 1, cl, stk),
              LAMBDA r :
                 IF r.st = "err" THEN ErrList(r.pos, r.cl)
                 ELSE Call("csv_rest",
                           [acc EXCEPT !.items = IF r.st = "ok" THEN Append(@, r.node)
                                                 ELSE @],
                           toks, r.pos, r.cl, stk))
    ELSE OkList(acc.items, pos, cl)

\* _parse_csv(parse_method), m naming the parse method
ParseCsv(m, toks, pos, cl, stk) ==
    Bind(Call(m, <<>>, toks, pos, cl, stk),
         LAMBDA r :
            IF r.st = "err" THEN ErrList(r.pos, r.cl)
            ELSE Call("csv_rest",
                      [m |-> m, items |-> IF r.st = "ok" THEN <<r.node>> ELSE <<>>],
                      toks, r.pos, r.cl, stk))

\* _parse_expressions = _parse_csv(_parse_expression)
ParseExpressions(toks, pos, cl, stk) ==
    Call("_parse_csv", "_parse_expression", toks, pos, cl, stk)

\* _parse_projections = _parse_expressions, under a frame of its own name.
ParseProjections(toks, pos, cl, stk) ==
    Call("_parse_csv", "_parse_expression", toks, pos, cl, Append(stk, "_parse_projections"))

\* A list l that must be closed by the token closer.
Closed(l, closer, toks) ==
    IF l.st = "err" THEN l
    ELSE IF Curr(toks, l.pos) # closer THEN ErrList(l.pos, l.cl)
    ELSE OkList(l.items, l.pos + 1, l.cl)

\* self.expression(func_class, this=args), which validates the node
OptFuncNode(func_name, args) ==
    LET func_class == opt_func_to_class_dict(func_name)
    IN IF args.st = "err" THEN Err(args.pos, args.cl)
       ELSE IF func_class = "None" THEN Err(args.pos, args.cl)
       ELSE IF ~ValidOptFunc(args.items) THEN Err(args.pos, args.cl)
       ELSE Ok([k |-> func_class, this |-> args.items], args.pos, args.cl)

\* DTMySQL.Parser._parse_opt_func; pos is just after the keyword.
ParseOptFunc(func_name, toks, pos, cl, stk) ==
    IF Curr(toks, pos) # "L_PAREN" THEN Err(pos, cl)
    ELSE IF Curr(toks, pos + 1) = "R_PAREN"
    THEN OptFuncNode(func_name, OkList(<<>>, pos + 2, cl))
    ELSE Bind(Traced(cl, func_name, pos - 1, cl.opt_block_in_clause),
              LAMBDA c :
                 Bind(IF c.opt_block_in_clause = PROJECTION
                        THEN Call("_parse_projections", <<>>, toks, pos + 1, c, stk)
                      ELSE IF c.opt_block_in_clause = GROUP_BY
                        THEN Call("_parse_csv", "_parse_assignment", toks, pos + 1, c, stk)
                      ELSE IF c.opt_block_in_clause = ORDER_BY
                        THEN Call("_parse_csv", "_parse_ordered", toks, pos + 1, c, stk)
                      ELSE Call("_parse_expressions", <<>>, toks, pos + 1, c, stk),
                      LAMBDA l : OptFuncNode(func_name, Closed(l, "R_PAREN", toks))))

\* self.expression(OptBlock, this=name, blocks=blocks), which validates
OptBlockNode(name, blocks) ==
    IF blocks.st = "err" THEN Err(blocks.pos, blocks.cl)
    ELSE IF ~ValidOptBlock(TRUE, blocks.items) THEN Err(blocks.pos, blocks.cl)
    ELSE Ok([k |-> "OptBlock", this |-> name, blocks |-> blocks.items],
            blocks.pos, blocks.cl)

\* DTMySQL.Parser._parse_opt_block; pos is just after OPT_BLOCK.  The name
\* is kept as a plain string (.name of the identifier): its quoting is not
\* kept.  _parse_id_var() returning None makes .name raise.
ParseOptBlock(toks, pos, cl, stk) ==
    LET id == ParseIdVar(toks, pos, cl, TRUE)
        cl1 == [Traced(cl, "OPT_BLOCK", pos - 1, ClauseFromStack(stk))
                   EXCEPT !.opt_block_in_clause = ClauseFromStack(stk)]
    IN IF id.st # "ok" THEN Err(pos, cl)
       ELSE IF Curr(toks, id.pos) # "L_BRACKET" THEN Err(id.pos, cl1)
       ELSE IF Curr(toks, id.pos + 1) = "R_BRACKET"
       THEN OptBlockNode(id.node.name, OkList(<<>>, id.pos + 2, cl1))
       ELSE Bind(Call("_parse_expressions", <<>>, toks, id.pos + 1, cl1, stk),
                 LAMBDA l : OptBlockNode(id.node.name, Closed(l, "R_BRACKET", toks)))

\* The end of _parse_paren for a list of expressions: a tuple or a
\* parenthesised expression, closed by ")".
ParenOf(l, toks) ==
    IF l.st = "err" THEN Err(l.pos, l.cl)
    ELSE IF Curr(toks, l.pos) # "R_PAREN" THEN Err(l.pos, l.cl)
    ELSE IF Len(l.items) = 1 /\ Curr(toks, l.pos - 1) # "COMMA"
    THEN Ok([k |-> "Paren", this |-> l.items[1]], l.pos + 1, l.cl)
    ELSE Ok([k |-> "Tuple", expressions |-> l.items], l.pos + 1, l.cl)

\* _parse_paren: a subquery, a tuple or a parenthesised expression.
ParseParen(toks, pos, cl, stk) ==
    Bind(Call("_parse_select", <<>>, toks, pos + 1, cl, Append(stk, "_parse_paren")),
         LAMBDA query :
            IF query.st = "err" THEN query
            ELSE IF query.st = "ok"
            THEN IF Curr(toks, query.pos) # "R_PAREN" THEN Err(query.pos, query.cl)
                 ELSE Ok([k |-> "Subquery", this |-> query.node], query.pos + 1, query.cl)
            ELSE Bind(Call("_parse_expressions", <<>>, toks, pos + 1, cl,
                           Append(stk, "_parse_paren")),
                      LAMBDA l : ParenOf(l, toks)))

\* _parse_column -> _parse_field: a primary (placeholder, parenthesis), a
\* function (NO_PAREN_FUNCTION_PARSERS by the upper-cased text, unless the
\* token is quoted), or an identifier as a column.
ParseColumn(toks, pos, cl, stk) ==
    LET t == Curr(toks, pos)
        text == CurrText(toks, pos)
    IN IF t = "PLACEHOLDER" THEN Ok([k |-> "Placeholder"], pos + 1, cl)
       ELSE IF t = "L_PAREN" THEN Call("_parse_paren", <<>>, toks, pos, cl, stk)
       ELSE IF text \in {"OPTIONAL", "REQUIRED", "LOOP"} /\ t \notin INVALID_FUNC_NAME_TOKENS
       THEN Call("_parse_opt_func", text, toks, pos + 1, cl, stk)
       ELSE IF text = "OPT_BLOCK" /\ t \notin INVALID_FUNC_NAME_TOKENS
       THEN Call("_parse_opt_block", <<>>, toks, pos + 1, cl, Append(stk, "_parse_opt_block"))
       ELSE LET id == ParseIdVar(toks, pos, cl, FALSE)
            IN IF id.st = "ok"
               THEN Ok([k |-> "Column", this |-> id.node], id.pos, cl)
               ELSE Non(pos, cl)

\* _parse_query_modifiers on the query sel: WHERE (_parse_where), GROUP BY
\* (_parse_group) and ORDER BY (_parse_order) as they come.
ParseQueryModifiers(sel, toks, pos, cl, stk) ==
    LET t == Curr(toks, pos)
    IN IF t = "WHERE"
       THEN Bind(Call("_parse_assignment", <<>>, toks, pos + 1, cl,
                      Append(stk, "_parse_where")),
                 LAMBDA r :
                    IF r.st # "ok" THEN Err(r.pos, r.cl)
                    ELSE Call("_parse_query_modifiers", [sel EXCEPT !.where = r.node],
                              toks, r.pos, r.cl, stk))
       ELSE IF t = "GROUP_BY"
       THEN Bind(Call("_parse_csv", "_parse_assignment", toks, pos + 1, cl,
                      Append(stk, "_parse_group")),
                 LAMBDA l :
                    IF l.st = "err" THEN Err(l.pos, l.cl)
                    ELSE Call("_parse_query_modifiers", [sel EXCEPT !.group = l.items],
                              toks, l.pos, l.cl, stk))
       ELSE IF t = "ORDER_BY"
       THEN Bind(Call("_parse_csv", "_parse_ordered", toks, pos + 1, cl,
                      Append(stk, "_parse_order")),
                 LAMBDA l :
                    IF l.st = "err" \/ l.items = <<>> THEN Err(l.pos, l.cl)
                    ELSE Call("_parse_query_modifiers", [sel EXCEPT !.order = l.items],
                              toks, l.pos, l.cl, stk))
       ELSE Ok(sel, pos, cl)

\* The end of _parse_select once the projections proj are parsed: the
\* Select node, FROM with its table, then the modifiers.
SelectOf(proj, toks, stk) ==
    IF proj.st = "err" THEN Err(proj.pos, proj.cl)
    ELSE LET sel0 == [k |-> "Select", expressions |-> proj.items,
                      from |-> NoNode, where |-> NoNode,
                      group |-> <<>>, order |-> <<>>]
         IN IF Curr(toks, proj.pos) = "FROM"
            THEN LET tab == ParseIdVar(toks, proj.pos + 1, proj.cl, FALSE)
                 IN IF tab.st # "ok" THEN Err(tab.pos, tab.cl)
                    ELSE Call("_parse_query_modifiers", [sel0 EXCEPT !.from = tab.node],
                              toks, tab.pos, tab.cl, stk)
            ELSE Call("_parse_query_modifiers", sel0, toks, proj.pos, proj.cl, stk)

\* _parse_select: SELECT projections [FROM table] modifiers.
ParseSelect(toks, pos, cl, stk) ==
    IF Curr(toks, pos) # "SELECT" THEN Non(pos, cl)
    ELSE Bind(Call("_parse_projections", <<>>, toks, pos + 1, cl,
                   Append(stk, "_parse_select")),
              LAMBDA proj : SelectOf(proj, toks, Append(stk, "_parse_select")))

Call(method, arg, toks, pos, cl, stk) ==
    CASE method = "_parse_column" -> ParseColumn(toks, pos, cl, stk)
      [] method = "_parse_comparison" -> ParseComparison(toks, pos, cl, stk)
      [] method = "comparison_rest" -> ComparisonRest(arg, toks, stk)
      [] method = "_parse_equality" -> ParseEquality(toks, pos, cl, stk)
      [] method = "equality_rest" -> EqualityRest(arg, toks, stk)
      [] method = "_parse_conjunction" -> ParseConjunction(toks, pos, cl, stk)
      [] method = "conjunction_rest" -> ConjunctionRest(arg, toks, stk)
      [] method = "_parse_assignment" -> ParseAssignment(toks, pos, cl, stk)
      [] method = "_parse_expression" -> ParseExpression(toks, pos, cl, stk)
      [] method = "_parse_ordered" -> ParseOrdered(toks, pos, cl, stk)
      [] method = "_parse_csv" -> ParseCsv(arg, toks, pos, cl, stk)
      [] method = "csv_rest" -> CsvRest(arg, toks, pos, cl, stk)
      [] method = "_parse_expressions" -> ParseExpressions(toks, pos, cl, stk)
      [] method = "_parse_projections" -> ParseProjections(toks, pos, cl, stk)
      [] method = "_parse_opt_func" -> ParseOptFunc(arg, toks, pos, cl, stk)
      [] method = "_parse_opt_block" -> ParseOptBlock(toks, pos, cl, stk)
      [] method = "_parse_paren" -> ParseParen(toks, pos, cl, stk)
      [] method = "_parse_select" -> ParseSelect(toks, pos, cl, stk)
      [] method = "_parse_query_modifiers" -> ParseQueryModifiers(arg, toks, pos, cl, stk)

\* As ParserInit, had one parser been kept from one parse_one call to the
\* next: it starts with what the previous parse left.
ParserKept(previous) == previous

\* Parser.__init__ (lines 141-143): a new parser starts in EXPRESSION,
\* whatever the parser of the previous parse_one call was left with.
ParserInit(previous) == EXPRESSION

\* No statement: the parse raised.
NoResult ==
    [ok |-> FALSE, stmt |-> NoNode, trace |-> <<>>, opt_block_in_clause |-> EXPRESSION]

\* The outcome of a parse from its last result r: a token left over
\* ("Invalid expression / Unexpected token") or nothing parsed raises.
Outcome(r, toks) ==
    IF r.st = "ok" /\ r.pos = Len(toks) + 1
    THEN [ok |-> TRUE, stmt |-> r.node, trace |-> r.cl.trace,
          opt_block_in_clause |-> r.cl.opt_block_in_clause]
    ELSE [NoResult EXCEPT !.opt_block_in_clause = r.cl.opt_block_in_clause]

\* Parser.parse with _parse_statement on one statement, by a parser whose
\* field opt_block_in_clause holds clause: an expression, else a SELECT.
ParseWith(toks, clause) ==
    Bind(Call("_parse_expression", <<>>, toks, 1, ParserState(clause),
              <<"_parse_statement">>),
         LAMBDA e :
            Bind(IF e.st = "none"
                 THEN Call("_parse_select", <<>>, toks, 1, ParserState(clause),
                           <<"_parse_statement">>)
                 ELSE e,
                 LAMBDA r : Outcome(r, toks)))

\* parse_one(sql, read=dialect): the dialect makes a new parser each time.
ParseOne(toks) == ParseWith(toks, ParserInit(EXPRESSION))

(* ------------------------------------------------------------------ *)
(* Generator (DTMySQL.Generator)                                        *)
(* ------------------------------------------------------------------ *)
\* identifier_sql: back quotes are written only for a quoted identifier.
IdentifierSql(id) == IF id.quoted THEN Quote(id.name) ELSE id.name

RECURSIVE Sql(_)
RECURSIVE SqlList(_)

\* ", ".join(self.sql(e) for e in items)
SqlList(items) ==
    IF items = <<>> THEN <<>>
    ELSE IF Len(items) = 1 THEN Sql(items[1])
    ELSE Sql(items[1]) \o <<",", " ">> \o SqlList(Tail(items))

\* As opt_block_sql, with a space between the name and the bracket.
opt_block_sql_spaced(expression) ==
    <<"OPT_BLOCK", " ", expression.this, " ", "[">> \o SqlList(expression.blocks)
    \o <<"]">>

\* opt_block_sql: "OPT_BLOCK " + expression.name + "[" + items + "]".
\* expression.name is the bare string kept by the parser.
opt_block_sql(expression) ==
    <<"OPT_BLOCK", " ", expression.this, "[">> \o SqlList(expression.blocks) \o <<"]">>

\* required_sql / optional_sql / loop_sql: KEYWORD + " (" + items + ")".
required_sql(expression) ==
    <<"REQUIRED", " ", "(">> \o SqlList(expression.this) \o <<")">>

optional_sql(expression) ==
    <<"OPTIONAL", " ", "(">> \o SqlList(expression.this) \o <<")">>

loop_sql(expression) == <<"LOOP", " ", "(">> \o SqlList(expression.this) \o <<")">>

\* Generator.sql: TRANSFORMS of DTMySQL.Generator for the macro nodes, the
\* rules of the base generator for the rest.
Sql(e) ==
    CASE e.k = "OptBlock" -> opt_block_sql(e)
      [] e.k = "RequiredFunc" -> required_sql(e)
      [] e.k = "OptionalFunc" -> optional_sql(e)
      [] e.k = "LoopFunc" -> loop_sql(e)
      [] e.k = "Placeholder" -> <<"?">>
      [] e.k = "Identifier" -> <<IdentifierSql(e)>>
      [] e.k = "Column" -> <<IdentifierSql(e.this)>>
      [] e.k = "Alias" -> Sql(e.this) \o <<" ", "AS", " ", IdentifierSql(e.alias)>>
      [] e.k = "Ordered" ->
            Sql(e.this) \o (IF e.desc = "True" THEN <<" ", "DESC">>
                            ELSE IF e.desc = "False" THEN <<" ", "ASC">> ELSE <<>>)
      [] e.k = "EQ" -> Sql(e.this) \o <<" ", "=", " ">> \o Sql(e.expression)
      [] e.k = "GT" -> Sql(e.this) \o <<" ", ">", " ">> \o Sql(e.expression)
      [] e.k = "And" -> Sql(e.this) \o <<" ", "AND", " ">> \o Sql(e.expression)
      [] e.k = "Paren" -> <<"(">> \o Sql(e.this) \o <<")">>
      [] e.k = "Tuple" -> <<"(">> \o SqlList(e.expressions) \o <<")">>
      [] e.k = "Subquery" -> <<"(">> \o Sql(e.this) \o <<")">>
      [] e.k = "Select" ->
            <<"SELECT", " ">> \o SqlList(e.expressions)
            \o (IF e.from = NoNode THEN <<>> ELSE <<" ", "FROM", " ", IdentifierSql(e.from)>>)
            \o (IF e.where = NoNode THEN <<>> ELSE <<" ", "WHERE", " ">> \o Sql(e.where))
            \o (IF e.group = <<>> THEN <<>>
                ELSE <<" ", "GROUP BY", " ">> \o SqlList(e.group))
            \o (IF e.order = <<>> THEN <<>>
                ELSE <<" ", "ORDER BY", " ">> \o SqlList(e.order))

(* ------------------------------------------------------------------ *)
(* Texts, cleaning and tokenizing                                       *)
(* ------------------------------------------------------------------ *)
\* A text is a sequence of pieces: a word, a punctuation mark, a blank, a
\* line break "\n", or, where the two-character escape is meant, a backslash
\* piece followed by the piece "n".
Whitespace == {" ", "\n"}

RECURSIVE ReplaceFrom(_, _)
\* The pieces of s from index i on, each escaped line break replaced.
ReplaceFrom(s, i) ==
    IF i > Len(s) THEN <<>>
    ELSE IF i < Len(s) /\ s[i] = "\\" /\ s[i + 1] = "n"
         THEN <<"\n">> \o ReplaceFrom(s, i + 2)
         ELSE <<s[i]>> \o ReplaceFrom(s, i + 1)

\* sql_text.replace("\\n", "\n"): left to right, without overlap
ReplaceEscapedNewline(s) == ReplaceFrom(s, 1)

\* .replace("{", "[").replace("}", "]")
ReplaceBraces(s) ==
    [i \in 1..Len(s) |-> IF s[i] = "{" THEN "[" ELSE IF s[i] = "}" THEN "]" ELSE s[i]]

\* .strip()
Strip(s) ==
    LET keep == {i \in 1..Len(s) : s[i] \notin Whitespace}
    IN IF keep = {} THEN <<>>
       ELSE SubSeq(s, CHOOSE i \in keep : \A j \in keep : i <= j,
                      CHOOSE i \in keep : \A j \in keep : j <= i)

\* As clean_sql_text, without the final strip().
clean_sql_text_unstripped(sql_text) ==
    Bind(ReplaceEscapedNewline(sql_text), LAMBDA s1 : ReplaceBraces(s1))

clean_sql_text(sql_text) ==
    Bind(ReplaceEscapedNewline(sql_text),
         LAMBDA s1 : Bind(ReplaceBraces(s1), LAMBDA s2 : Strip(s2)))

\* Tokenizer.tokenize: white space separates tokens and yields none.
Tokenize(sql) == SelectSeq(sql, LAMBDA c : c \notin Whitespace)

\* parse(sql): parse_one; the stmt.sql() whose result is dropped has no effect.
parse(sql) == Bind(Tokenize(sql), LAMBDA toks : ParseOne(toks))

\* generate(stmt): stmt.sql(dialect=dialect)
generate(stmt) == Sql(stmt)

\* verify_sql: True when parse_one and the regeneration raise nothing, False
\* when either raises (every Exception is caught).
verify_sql(sql_text) == Bind(Tokenize(sql_text), LAMBDA toks : ParseOne(toks).ok)

(* ------------------------------------------------------------------ *)
(* Templates that are checked                                           *)
(* ------------------------------------------------------------------ *)
\* The longest argument list of a group macro.
MaxArgs == 2

GroupKeywords == {"REQUIRED", "OPTIONAL", "LOOP"}

BlockNames == {"x", "y", "^select^"}

Atoms == {<<"a">>, <<"^b^", "=", "?">>, <<"a", "ASC">>, <<"a", "AS", "c">>}

RECURSIVE CsvTexts(_, _)
\* The comma-separated lists of exactly n members of S.
CsvTexts(S, n) ==
    IF n = 0 THEN {<<>>}
    ELSE IF n = 1 THEN S
    ELSE {h \o <<",">> \o t : h \in S, t \in CsvTexts(S, n - 1)}

\* Argument lists: up to MaxArgs atoms, an empty list, a list that starts
\* with a comma and one that starts with AND.
ArgLists ==
    UNION {CsvTexts(Atoms, n) : n \in 0..MaxArgs} \cup {<<",", "a">>, <<"AND", "a">>}

GroupText(kw, l) == <<kw, "(">> \o l \o <<")">>

BlockText(n, b) == <<"OPT_BLOCK", n, "[">> \o b \o <<"]">>

Groups == {GroupText(kw, l) : kw \in GroupKeywords, l \in ArgLists}

SmallGroups == {GroupText(kw, <<"a">>) : kw \in GroupKeywords}

InnerBlocks == {BlockText(n, b) : n \in BlockNames, b \in {<<>>, <<"a">>} \cup SmallGroups}

PairItems == {<<"a">>} \cup SmallGroups \cup {BlockText(n, <<"a">>) : n \in BlockNames}

BlockBodies ==
    {<<>>} \cup Atoms \cup Groups \cup InnerBlocks
    \cup {p \o <<",">> \o q : p \in PairItems, q \in PairItems}

Blocks == {BlockText(n, b) : n \in BlockNames, b \in BlockBodies}

Fragments == Atoms \cup Groups \cup Blocks

\* A fragment f alone (clause 0 - 1), or in the clause given: the SELECT
\* list, WHERE (EXPRESSION), GROUP BY or ORDER BY of a query.
InClause(clause, f) ==
    CASE clause = PROJECTION -> <<"SELECT">> \o f \o <<"FROM", "t">>
      [] clause = EXPRESSION -> <<"SELECT", "a", "FROM", "t", "WHERE">> \o f
      [] clause = GROUP_BY -> <<"SELECT", "a", "FROM", "t", "GROUP BY">> \o f
      [] clause = ORDER_BY -> <<"SELECT", "a", "FROM", "t", "ORDER BY">> \o f
      [] OTHER -> f

Clauses == {EXPRESSION, PROJECTION, GROUP_BY, ORDER_BY}

\* A parenthesised query with the fragment f in its WHERE clause, or in its
\* SELECT list.
SubqueryWhere(f) == <<"(", "SELECT", "a", "FROM", "t", "WHERE">> \o f \o <<")">>

SubqueryList(f) == <<"(", "SELECT">> \o f \o <<"FROM", "t", ")">>

\* Groups with one item that tells the clause contexts apart.
ProbeGroups == SmallGroups \cup {GroupText(kw, <<"a", "ASC">>) : kw \in GroupKeywords}

\* A block in the WHERE clause of a subquery that sits in a clause of the
\* outer query.
SubqueryTemplates ==
    {InClause(c, SubqueryWhere(BlockText("x", g))) : c \in Clauses, g \in ProbeGroups}

\* A group after a block has closed: in an outer block after a block nested
\* in a subquery, and in a later clause after the block of an earlier one.
AfterBlockTemplates ==
    {InClause(c, BlockText("x", SubqueryList(BlockText("y", <<"a">>)) \o <<",">> \o g)) :
        c \in Clauses \cup {0 - 1}, g \in ProbeGroups}
    \cup {<<"SELECT", "a", "FROM", "t", "ORDER BY">> \o BlockText("x", <<"a">>)
            \o <<"WHERE">> \o BlockText("y", g) : g \in ProbeGroups}
    \cup {<<"SELECT", "a", "FROM", "t", "ORDER BY">> \o BlockText("x", <<"a">>)
            \o <<"WHERE">> \o g : g \in ProbeGroups}

\* The template of the end-to-end scenario.
EndToEnd ==
    <<"SELECT", "OPT_BLOCK", "proj", "[",
      "REQUIRED", "(", "id", ",", "name", ")", ",",
      "OPTIONAL", "(", "age", ",", "email", ")", "]",
      "FROM", "users", "WHERE", "OPT_BLOCK", "filt", "[",
      "OPTIONAL", "(", "status", "=", "?", ",", "age", ">", "?", ")", "]">>

\* One fragment alone, or in the SELECT list, WHERE, GROUP BY or ORDER BY of
\* a query; a query with a block in the SELECT list and one in WHERE; the
\* templates with subqueries; the end-to-end scenario.
Templates ==
    {InClause(c, f) : c \in Clauses \cup {0 - 1}, f \in Fragments}
    \cup {<<"SELECT">> \o BlockText(n, p) \o <<"FROM", "t", "WHERE">> \o BlockText(m, q) :
            n \in BlockNames, m \in BlockNames, p \in SmallGroups, q \in SmallGroups}
    \cup SubqueryTemplates \cup AfterBlockTemplates \cup {EndToEnd}

(* ------------------------------------------------------------------ *)
(* Input of the batch run: the file written by sql_pattern.py           *)
(* ------------------------------------------------------------------ *)
\* The most batches in the input file, and the most entries of one
\* formatted_templates list.
MaxBatches == 1

MaxTemplates == 2

\* A template that parses once it is cleaned (escaped line break, braces,
\* blanks around it), and one that does not parse (an empty group).
GoodRaw ==
    <<" ", "SELECT", "\\", "n", "OPT_BLOCK", "x", "{", "REQUIRED", "(", "a", ")", "}",
      "FROM", "t", "\n">>

BadRaw == <<"SELECT", "REQUIRED", "(", ")", "FROM", "t">>

\* An entry of formatted_templates: a record {"id", "template"}, or a bare
\* string (what enumerating an error object yields: its keys).
DictEntry(text) == [kind |-> "dict", id |-> "SQL", template |-> text]

StrEntry == [kind |-> "str"]

\* A record without the "template" key: template['template'] raises KeyError.
NoTemplateEntry == [kind |-> "dict", id |-> "SQL"]

Entries == {DictEntry(GoodRaw), DictEntry(BadRaw), StrEntry, NoTemplateEntry}

\* verify_sql(clean_sql_text(template['template'])) for each template text of
\* the entries (lines 258-259), computed once.
VerifyCleaned == [t \in {GoodRaw, BadRaw} |-> verify_sql(clean_sql_text(t))]

RECURSIVE SeqsOfLen(_, _)
SeqsOfLen(S, n) ==
    IF n = 0 THEN {<<>>} ELSE {Append(q, x) : q \in SeqsOfLen(S, n - 1), x \in S}

SeqsUpTo(S, n) == UNION {SeqsOfLen(S, k) : k \in 0..n}

\* model_output of process_item: with formatted_templates a list (JSON was
\* parsed), or an error object (clean_and_parse_sql_templates gave up: the
\* loop then enumerates its three keys), or, for an item that failed, the
\* error record without any formatted_templates.
ListOutput(entries) == [formatted_templates |-> entries]

ErrorObjectOutput == [formatted_templates |-> <<StrEntry, StrEntry, StrEntry>>]

FailedItemOutput == [error |-> "e", error_type |-> "t", traceback |-> "tb"]

ModelOutputs ==
    {ListOutput(l) : l \in SeqsUpTo(Entries, MaxTemplates)}
    \cup {ErrorObjectOutput, FailedItemOutput}

Items == {[model_output |-> mo] : mo \in ModelOutputs}

(* ------------------------------------------------------------------ *)
(* State                                                                *)
(* ------------------------------------------------------------------ *)
VARIABLES
    rt_pc,      \* round trip: "text", "parsed", "failed", "generated", "reparsed"
    rt_text,    \* the template T
    rt_stmt,    \* parse(T)
    rt_sql,     \* generate(parse(T))
    rt_stmt2,   \* parse(generate(parse(T)))
    pc,         \* the batch run: "loop", "template", "done", "crashed"
    data,       \* json.load(f); its items are updated in place
    item,       \* index into data of the for loop (1-based)
    idx,        \* index of the inner loop (1-based)
    full_success,
    include_success,
    total_success,
    total_failed,
    include_success_chunk,
    full_success_chunk,
    failed_chunk,
    check_templates,
    report,     \* the content of the report file, <<"none">> until written
    cl_pc,      \* cleaning: "idle", "text", "cleaned", "again"
    cl_in,      \* the raw text s
    cl_out,     \* clean_sql_text(s)
    cl_out2,    \* clean_sql_text(clean_sql_text(s))
    iso_pc,     \* two verifiers: "idle", "run"
    iso_left,   \* per verifier: opt_block_in_clause of its last parser
    iso_ran,    \* per verifier: the number of earlier templates verified
    iso_text,   \* the template both verify
    iso_result, \* per verifier: its result for iso_text, or NoVerdict
    rq_max,     \* requests: max_concurrent, 0 while idle
    rq_sem,     \* asyncio.Semaphore: its free permits
    rq_task,    \* per item: the state of its process_item task
    pj_pc,      \* process_json_file_async: "idle", "generate", "gather", "verify", "done"
    all_functions,    \* the functions of the input, in order
    pj_i,             \* index of the running for loop (1-based)
    caller,           \* the local variable caller
    initial_results,  \* per function: the generated SQL, or an exception
    verify_tasks,     \* the verification requests created, in order
    fp_pc,      \* fingerprint tool: "idle", "run"
    files,      \* per path: the content of the file, or Absent
    ops,        \* the number of commands run
    last_op     \* the last command: its arguments, what it loaded, its result

rt_vars == <<rt_pc, rt_text, rt_stmt, rt_sql, rt_stmt2>>

main_vars ==
    <<pc, data, item, idx, full_success, include_success, total_success,
      total_failed, include_success_chunk, full_success_chunk, failed_chunk,
      check_templates, report>>

cl_vars == <<cl_pc, cl_in, cl_out, cl_out2>>

iso_vars == <<iso_pc, iso_left, iso_ran, iso_text, iso_result>>

req_vars == <<rq_max, rq_sem, rq_task>>

pj_vars == <<pj_pc, all_functions, pj_i, caller, initial_results, verify_tasks>>

fp_vars == <<fp_pc, files, ops, last_op>>

later_vars == <<req_vars, pj_vars, fp_vars>>

vars == <<rt_vars, main_vars, cl_vars, iso_vars, later_vars>>

ReqIdle == rq_max = 0 /\ rq_sem = 0 /\ rq_task = <<>>

PjIdle ==
    /\ pj_pc = "idle"
    /\ all_functions = <<>>
    /\ pj_i = 0
    /\ caller = ""
    /\ initial_results = <<>>
    /\ verify_tasks = <<>>

FpIdle == fp_pc = "idle" /\ files = <<>> /\ ops = 0 /\ last_op = <<>>

LaterIdle == ReqIdle /\ PjIdle /\ FpIdle

\* verify_sql has not been called / has returned success with sql_text.
NoVerdict == [called |-> FALSE]

ClIdle == cl_pc = "idle" /\ cl_in = <<>> /\ cl_out = <<>> /\ cl_out2 = <<>>

IsoIdle ==
    /\ iso_pc = "idle"
    /\ iso_left = <<EXPRESSION, EXPRESSION>>
    /\ iso_ran = <<0, 0>>
    /\ iso_text = <<>>
    /\ iso_result = <<NoVerdict, NoVerdict>>

(* ------------------------------------------------------------------ *)
(* Round trip of one template: parse, generate, parse again             *)
(* ------------------------------------------------------------------ *)
RtIdle ==
    /\ rt_pc = "idle"
    /\ rt_text = <<>>
    /\ rt_stmt = NoResult
    /\ rt_sql = <<>>
    /\ rt_stmt2 = NoResult

\* The state of __main__ before the input file is read (lines 241-248).
MainStart(input) ==
    /\ pc = "loop"
    /\ data = input
    /\ item = 1
    /\ idx = 1
    /\ full_success = TRUE
    /\ include_success = FALSE
    /\ total_success = 0
    /\ total_failed = 0
    /\ include_success_chunk = 0
    /\ full_success_chunk = 0
    /\ failed_chunk = 0
    /\ check_templates = <<>>
    /\ report = <<"none">>

RtInit ==
    /\ rt_pc = "text"
    /\ rt_text \in Templates
    /\ rt_stmt = NoResult
    /\ rt_sql = <<>>
    /\ rt_stmt2 = NoResult
    /\ MainStart(<<>>)
    /\ ClIdle
    /\ IsoIdle
    /\ LaterIdle

RtParse ==
    /\ rt_pc = "text"
    /\ rt_stmt' = parse(rt_text)
    /\ rt_pc' = IF rt_stmt'.ok THEN "parsed" ELSE "failed"
    /\ UNCHANGED <<rt_text, rt_sql, rt_stmt2, main_vars, cl_vars, iso_vars, later_vars>>

RtGenerate ==
    /\ rt_pc = "parsed"
    /\ rt_sql' = generate(rt_stmt.stmt)
    /\ rt_pc' = "generated"
    /\ UNCHANGED <<rt_text, rt_stmt, rt_stmt2, main_vars, cl_vars, iso_vars, later_vars>>

RtReparse ==
    /\ rt_pc = "generated"
    /\ rt_stmt2' = parse(rt_sql)
    /\ rt_pc' = "reparsed"
    /\ UNCHANGED <<rt_text, rt_stmt, rt_sql, main_vars, cl_vars, iso_vars, later_vars>>

RtNext == RtParse \/ RtGenerate \/ RtReparse

SpecRT == RtInit /\ [][RtNext]_vars

(* ------------------------------------------------------------------ *)
(* The batch run (__main__ of pattern_verify.py)                        *)
(* ------------------------------------------------------------------ *)
Init ==
    /\ RtIdle
    /\ ClIdle
    /\ IsoIdle
    /\ \E input \in SeqsUpTo(Items, MaxBatches) : MainStart(input)
    /\ LaterIdle

sql_templates == data[item].model_output.formatted_templates

\* As VerifyOutcome, had verify_sql let the exception of a template that does
\* not parse through: the handler of the loop catches it and records nothing.
VerifyOutcomeUncaught(template) ==
    IF template.kind # "dict" \/ "template" \notin DOMAIN template THEN "raised"
    ELSE IF VerifyCleaned[template.template] THEN "success"
    ELSE "raised"

\* What the body of the inner loop (lines 257-270) does with one entry:
\* template['template'] raises on an entry that is no record with that key
\* (TypeError, KeyError) and the handler only prints; else verify_sql, which
\* catches every exception of parsing and generating, says True or False.
VerifyOutcome(template) ==
    IF template.kind # "dict" \/ "template" \notin DOMAIN template THEN "raised"
    ELSE IF VerifyCleaned[template.template] THEN "success"
    ELSE "failed"

\* for item in data: the next item has formatted_templates (lines 251-255)
LoadItem ==
    /\ pc = "loop"
    /\ item <= Len(data)
    /\ "formatted_templates" \in DOMAIN data[item].model_output
    /\ full_success' = TRUE
    /\ include_success' = FALSE
    /\ idx' = 1
    /\ pc' = "template"
    /\ UNCHANGED <<data, item, total_success, total_failed, include_success_chunk,
                   full_success_chunk, failed_chunk, check_templates, report, rt_vars,
                   cl_vars, iso_vars, later_vars>>

\* line 253 raises KeyError outside any try: the run ends with a traceback
LoadItemKeyError ==
    /\ pc = "loop"
    /\ item <= Len(data)
    /\ "formatted_templates" \notin DOMAIN data[item].model_output
    /\ pc' = "crashed"
    /\ UNCHANGED <<data, item, idx, full_success, include_success, total_success,
                   total_failed, include_success_chunk, full_success_chunk,
                   failed_chunk, check_templates, report, rt_vars, cl_vars,
                   iso_vars, later_vars>>

\* one pass of the inner loop (lines 256-270)
VerifyTemplate ==
    /\ pc = "template"
    /\ idx <= Len(sql_templates)
    /\ LET outcome == VerifyOutcome(sql_templates[idx])
           flagged(v) ==
               [data EXCEPT ![item].model_output.formatted_templates[idx] =
                                ("success" :> v) @@ @]
       IN /\ total_success' = IF outcome = "success" THEN total_success + 1
                              ELSE total_success
          /\ total_failed' = IF outcome = "failed" THEN total_failed + 1
                             ELSE total_failed
          /\ include_success' = IF outcome = "success" THEN TRUE ELSE include_success
          /\ full_success' = IF outcome = "failed" THEN FALSE ELSE full_success
          /\ data' = IF outcome = "success" THEN flagged(TRUE)
                     ELSE IF outcome = "failed" THEN flagged(FALSE)
                     ELSE data
    /\ idx' = idx + 1
    /\ UNCHANGED <<pc, item, include_success_chunk, full_success_chunk, failed_chunk,
                   check_templates, report, rt_vars, cl_vars, iso_vars, later_vars>>

\* after the inner loop (lines 271-277)
FinishItem ==
    /\ pc = "template"
    /\ idx > Len(sql_templates)
    /\ check_templates' = Append(check_templates, data[item])
    /\ full_success_chunk' = IF full_success THEN full_success_chunk + 1
                             ELSE full_success_chunk
    /\ include_success_chunk' = IF ~full_success /\ include_success
                                THEN include_success_chunk + 1
                                ELSE include_success_chunk
    /\ failed_chunk' = IF ~full_success /\ ~include_success THEN failed_chunk + 1
                       ELSE failed_chunk
    /\ item' = item + 1
    /\ pc' = "loop"
    /\ UNCHANGED <<data, idx, full_success, include_success, total_success,
                   total_failed, report, rt_vars, cl_vars, iso_vars, later_vars>>

\* after the outer loop: json.dump(check_templates, f) (lines 278-279)
WriteReport ==
    /\ pc = "loop"
    /\ item > Len(data)
    /\ report' = check_templates
    /\ pc' = "done"
    /\ UNCHANGED <<data, item, idx, full_success, include_success, total_success,
                   total_failed, include_success_chunk, full_success_chunk,
                   failed_chunk, check_templates, rt_vars, cl_vars, iso_vars, later_vars>>

Next == LoadItem \/ LoadItemKeyError \/ VerifyTemplate \/ FinishItem \/ WriteReport

Spec == Init /\ [][Next]_vars

(* ------------------------------------------------------------------ *)
(* What the claims speak of                                             *)
(* ------------------------------------------------------------------ *)
IsGroup(e) == e.k \in {"RequiredFunc", "OptionalFunc", "LoopFunc"}

\* The children of a node, left to right.
Children(e) ==
    CASE e.k = "OptBlock" -> e.blocks
      [] IsGroup(e) -> e.this
      [] e.k \in {"Alias", "Ordered", "Paren", "Subquery"} -> <<e.this>>
      [] e.k \in {"EQ", "GT", "And"} -> <<e.this, e.expression>>
      [] e.k = "Tuple" -> e.expressions
      [] e.k = "Select" ->
            e.expressions \o (IF e.where = NoNode THEN <<>> ELSE <<e.where>>)
            \o e.group \o e.order
      [] OTHER -> <<>>

RECURSIVE NodesOf(_)
RECURSIVE NodesOfList(_)
\* Every node of the tree e, in preorder.
NodesOf(e) == <<e>> \o NodesOfList(Children(e))

NodesOfList(l) == IF l = <<>> THEN <<>> ELSE NodesOf(Head(l)) \o NodesOfList(Tail(l))

RECURSIVE NodesOutsideBlocks(_)
RECURSIVE NodesOutsideBlocksList(_)
\* The nodes of e that have no OptBlock ancestor.
NodesOutsideBlocks(e) ==
    <<e>> \o (IF e.k = "OptBlock" THEN <<>> ELSE NodesOutsideBlocksList(Children(e)))

NodesOutsideBlocksList(l) ==
    IF l = <<>> THEN <<>>
    ELSE NodesOutsideBlocks(Head(l)) \o NodesOutsideBlocksList(Tail(l))

Range(q) == {q[i] : i \in 1..Len(q)}

\* The names of the OptBlock nodes of e, one per node.
BlockNamesOf(e) ==
    LET all == NodesOf(e)
    IN SelectSeq(all, LAMBDA n : n.k = "OptBlock")

PairwiseDistinctNames(blocks) ==
    \A i, j \in 1..Len(blocks) : i # j => blocks[i].this # blocks[j].this

\* In the text: two block-openers with the same name.
HasDuplicateOpeners(toks) ==
    \E i, j \in 1..(Len(toks) - 1) :
        /\ i # j
        /\ toks[i] = "OPT_BLOCK" /\ toks[j] = "OPT_BLOCK"
        /\ TokenText(toks[i + 1]) = TokenText(toks[j + 1])

\* In the text: the number of brackets open before token i.
BracketDepth(toks, i) ==
    Cardinality({j \in 1..(i - 1) : toks[j] = "["})
    - Cardinality({j \in 1..(i - 1) : toks[j] = "]"})

\* In the text: a group macro outside every block.
HasUnscopedGroup(toks) ==
    \E i \in 1..Len(toks) : toks[i] \in GroupKeywords /\ BracketDepth(toks, i) = 0

\* In the text: a group macro with an empty argument list.
HasEmptyGroup(toks) ==
    \E i \in 1..(Len(toks) - 2) :
        toks[i] \in GroupKeywords /\ toks[i + 1] = "(" /\ toks[i + 2] = ")"

\* In the text: a block-opener with an empty bracket list.
HasEmptyBlock(toks) ==
    \E i \in 1..(Len(toks) - 3) :
        toks[i] = "OPT_BLOCK" /\ toks[i + 2] = "[" /\ toks[i + 3] = "]"

RtParsed == rt_pc \in {"parsed", "generated", "reparsed"}

(* ------------------------------------------------------------------ *)
(* Claims on the round trip (SpecRT)                                    *)
(* ------------------------------------------------------------------ *)
\* C1: for every template that parse() accepts, the generated text is
\* accepted again and parses to an AST equal to the first one.
C1_RoundTrip ==
    rt_pc = "reparsed" => (rt_stmt2.ok /\ rt_stmt2.stmt = rt_stmt.stmt)

\* C2: a template with two block-openers of the same name does not parse,
\* and the OptBlock names of a parsed AST are pairwise distinct.
C2_UniqueBlockNames ==
    /\ (rt_pc # "text" /\ HasDuplicateOpeners(rt_text)) => rt_pc = "failed"
    /\ RtParsed => PairwiseDistinctNames(BlockNamesOf(rt_stmt.stmt))

\* C3: a template with a group macro outside every block does not parse, and
\* every group node of a parsed AST has an OptBlock ancestor.
C3_GroupsScoped ==
    /\ (rt_pc # "text" /\ HasUnscopedGroup(rt_text)) => rt_pc = "failed"
    /\ RtParsed => \A n \in Range(NodesOutsideBlocks(rt_stmt.stmt)) : ~IsGroup(n)

\* C4: a template with a group macro whose argument list is empty does not
\* parse, and no group node of an AST that parsing returns (of the template
\* or of the regenerated text) has an empty child list.
C4_NonEmptyGroups ==
    /\ (rt_pc # "text" /\ HasEmptyGroup(rt_text)) => rt_pc = "failed"
    /\ RtParsed => \A n \in Range(NodesOf(rt_stmt.stmt)) : IsGroup(n) => n.this # <<>>
    /\ rt_stmt2.ok => \A n \in Range(NodesOf(rt_stmt2.stmt)) : IsGroup(n) => n.this # <<>>

\* C4 happens: a block whose only item is LOOP() was handed to the parser,
\* and the parse failed.
C4_Witness ==
    /\ rt_pc = "failed"
    /\ rt_text = <<"SELECT">> \o BlockText("x", GroupText("LOOP", <<>>)) \o <<"FROM", "t">>

\* C5: a template with a block-opener whose bracket list is empty does not
\* parse, and no OptBlock of a parsed AST has an empty item list.
C5_NonEmptyBlocks ==
    /\ (rt_pc # "text" /\ HasEmptyBlock(rt_text)) => rt_pc = "failed"
    /\ RtParsed =>
         \A n \in Range(NodesOf(rt_stmt.stmt)) : n.k = "OptBlock" => n.blocks # <<>>

(* ------------------------------------------------------------------ *)
(* Claims on the batch run (Spec)                                       *)
(* ------------------------------------------------------------------ *)
\* The batches whose inner loop has ended.
ClosedBatches == 1..(item - 1)

\* The entries of batch b as they are now (with the flags set so far).
EntriesOf(b) ==
    IF "formatted_templates" \in DOMAIN data[b].model_output
    THEN data[b].model_output.formatted_templates
    ELSE <<>>

\* Entry j of batch b has been through the body of the inner loop.
Verified(b, j) == b < item \/ (b = item /\ pc = "template" /\ j < idx)

WellFormed(e) == e.kind = "dict" /\ "template" \in DOMAIN e

\* The value verify_sql gives the entry's template verified on its own.
Alone(e) == VerifyCleaned[e.template]

Flag(e) == IF "success" \in DOMAIN e THEN IF e.success THEN "True" ELSE "False" ELSE "unset"

\* C6: a template that fails to parse is recorded as failed, and every
\* template of the batch that has been through the loop carries the success
\* value it gets when verified alone, whatever its siblings did.
C6_BatchIsolation ==
    \A b \in 1..Len(data) : \A j \in 1..Len(EntriesOf(b)) :
        LET e == EntriesOf(b)[j]
        IN (Verified(b, j) /\ WellFormed(e)) =>
              Flag(e) = IF Alone(e) THEN "True" ELSE "False"

\* C6 happens: in one batch a template failed and a later one succeeded.
C6_Witness ==
    \E b \in 1..Len(data) : \E j, k \in 1..Len(EntriesOf(b)) :
        /\ j < k /\ Verified(b, k)
        /\ Flag(EntriesOf(b)[j]) = "False"
        /\ Flag(EntriesOf(b)[k]) = "True"

\* An entry parsed: it is a record with a template that verify_sql accepts.
\* An entry whose cleaning or verification raised did not parse.
Parsed(e) == WellFormed(e) /\ Alone(e)

Disposition(b) ==
    LET es == EntriesOf(b)
    IN IF \A j \in 1..Len(es) : Parsed(es[j]) THEN "full"
       ELSE IF \E j \in 1..Len(es) : Parsed(es[j]) THEN "partial"
       ELSE "failure"

\* C7: each closed batch is counted as full success exactly when all of its
\* templates parsed, as partial success when some but not all did, and as
\* failure when none did.
C7_BatchDisposition ==
    /\ full_success_chunk = Cardinality({b \in ClosedBatches : Disposition(b) = "full"})
    /\ include_success_chunk =
          Cardinality({b \in ClosedBatches : Disposition(b) = "partial"})
    /\ failed_chunk = Cardinality({b \in ClosedBatches : Disposition(b) = "failure"})

\* C8: no exception leaves the batch processing: the run never ends before
\* the report is written.
C8_ReportCompletes == pc # "crashed"

\* C9: in the report every template of a processed batch carries a boolean
\* success flag, a failed one the captured error as well, a successful one
\* the regenerated text.
C9_TemplateRecord ==
    \A b \in 1..Len(check_templates) :
        LET es == check_templates[b].model_output.formatted_templates
        IN \A j \in 1..Len(es) :
              /\ Flag(es[j]) # "unset"
              /\ Flag(es[j]) = "False" => "error" \in DOMAIN es[j]
              /\ Flag(es[j]) = "True" => "generated_text" \in DOMAIN es[j]

RECURSIVE TemplateCount(_)
\* The number of templates of the first n batches of the report.
TemplateCount(n) ==
    IF n = 0 THEN 0
    ELSE Len(check_templates[n].model_output.formatted_templates) + TemplateCount(n - 1)

RECURSIVE FlaggedTrue(_)
\* The number of templates flagged success=True in the first n batches.
FlaggedTrue(n) ==
    IF n = 0 THEN 0
    ELSE LET es == check_templates[n].model_output.formatted_templates
         IN Cardinality({j \in 1..Len(es) : Flag(es[j]) = "True"}) + FlaggedTrue(n - 1)

\* C10: at the end of a run the two template counters add up to the number
\* of templates of the processed batches, total_success is the number of
\* templates flagged True, and the three batch counters add up to the
\* number of batches processed.
C10_CounterRollUp ==
    pc = "done" =>
        /\ total_success + total_failed = TemplateCount(Len(check_templates))
        /\ total_success = FlaggedTrue(Len(check_templates))
        /\ full_success_chunk + include_success_chunk + failed_chunk
              = Len(check_templates)

(* ------------------------------------------------------------------ *)
(* Claims on clause contexts, list starts and rendering (SpecRT)        *)
(* ------------------------------------------------------------------ *)
\* The template has been handed to the parser.
RtTried == rt_pc # "text"

\* C11: a group macro inside a block in ORDER BY accepts an item with ASC,
\* and the same group macro inside a block in WHERE does not parse when an
\* item is followed by a bare ASC.
C11_ClauseSensitivity ==
    \A n \in BlockNames, kw \in GroupKeywords :
        LET b == BlockText(n, GroupText(kw, <<"a", "ASC">>))
        IN /\ (RtTried /\ rt_text = InClause(ORDER_BY, b)) => RtParsed
           /\ (RtTried /\ rt_text = InClause(EXPRESSION, b)) => rt_pc = "failed"

\* The clause contexts the trace of a parse shows, macro by macro.
ContextsOf(trace) == [i \in 1..Len(trace) |-> <<trace[i].macro, trace[i].clause>>]

\* C13: the end-to-end template is accepted by verify_sql, its regenerated
\* text parses again to an AST equal to the first, the projection block and
\* its two groups are parsed in Projection context and the filter block and
\* its group in Expression context.
C13_EndToEnd ==
    rt_text = EndToEnd =>
        /\ verify_sql(EndToEnd)
        /\ rt_pc # "failed"
        /\ RtParsed =>
             ContextsOf(rt_stmt.trace) =
                <<<<"OPT_BLOCK", PROJECTION>>, <<"REQUIRED", PROJECTION>>,
                  <<"OPTIONAL", PROJECTION>>, <<"OPT_BLOCK", EXPRESSION>>,
                  <<"OPTIONAL", EXPRESSION>>>>
        /\ rt_pc = "reparsed" => (rt_stmt2.ok /\ rt_stmt2.stmt = rt_stmt.stmt)

\* C13 happens: the end-to-end template went through parse, generate and
\* the second parse.
C13_Witness == rt_text = EndToEnd /\ rt_pc = "reparsed" /\ rt_stmt2.ok

\* In the text: a group macro whose list starts with a comma or with a bare
\* AND / OR.
HasBadGroupStart(toks) ==
    \E i \in 1..(Len(toks) - 2) :
        toks[i] \in GroupKeywords /\ toks[i + 1] = "(" /\ toks[i + 2] \in {",", "AND", "OR"}

\* C14: a template with a group macro whose list starts with a comma or
\* with a bare AND / OR does not parse.
C14_GroupListStart == (RtTried /\ HasBadGroupStart(rt_text)) => rt_pc = "failed"

\* The macro nodes of the tree e.
MacroNodes(e) == SelectSeq(NodesOf(e), LAMBDA n : n.k = "OptBlock" \/ IsGroup(n))

Keyword(n) ==
    CASE n.k = "RequiredFunc" -> "REQUIRED"
      [] n.k = "OptionalFunc" -> "OPTIONAL"
      [] n.k = "LoopFunc" -> "LOOP"
      [] OTHER -> "OPT_BLOCK"

RECURSIVE JoinItems(_)
\* The generated texts of the items, separated by a comma and a space.
JoinItems(items) ==
    IF items = <<>> THEN <<>>
    ELSE IF Len(items) = 1 THEN generate(items[1])
    ELSE generate(items[1]) \o <<",", " ">> \o JoinItems(Tail(items))

\* The text sub occurs in text.
Occurs(sub, text) ==
    \E i \in 1..(Len(text) - Len(sub) + 1) : SubSeq(text, i, i + Len(sub) - 1) = sub

\* OPT_BLOCK name [i1, i2] and REQUIRED(i1, i2): a space before the
\* bracket, none before the parenthesis.
RenderingSpaceBeforeBracket(n) ==
    IF n.k = "OptBlock"
    THEN <<"OPT_BLOCK", " ", n.this, " ", "[">> \o JoinItems(n.blocks) \o <<"]">>
    ELSE <<Keyword(n), "(">> \o JoinItems(n.this) \o <<")">>

\* OPT_BLOCK name[i1, i2] and REQUIRED (i1, i2): no space before the
\* bracket, one before the parenthesis.
RenderingSpaceBeforeParen(n) ==
    IF n.k = "OptBlock"
    THEN <<"OPT_BLOCK", " ", n.this, "[">> \o JoinItems(n.blocks) \o <<"]">>
    ELSE <<Keyword(n), " ", "(">> \o JoinItems(n.this) \o <<")">>

RtGenerated == rt_pc \in {"generated", "reparsed"}

RECURSIVE CsvOf(_)
\* The text of the items, separated by commas.
CsvOf(items) ==
    IF Len(items) = 1 THEN items[1] ELSE items[1] \o <<",">> \o CsvOf(Tail(items))

\* The parse method _parse_opt_func uses for the items in a clause context.
ItemMethod(clause) ==
    CASE clause = GROUP_BY -> "_parse_assignment"
      [] clause = ORDER_BY -> "_parse_ordered"
      [] OTHER -> "_parse_expression"

\* The node of one item parsed on its own by that method.
ItemNode(text, clause) ==
    Call(ItemMethod(clause), <<>>, text, 1, ParserState(clause), <<>>).node

\* The templates with one block that holds one group, with what they are
\* made of: the keyword and the items of the group, left to right.
GroupCases ==
    {[text |-> InClause(c, BlockText(n, GroupText(kw, CsvOf(items)))),
      kw |-> kw, items |-> items] :
        c \in Clauses \cup {0 - 1}, n \in BlockNames, kw \in GroupKeywords,
        items \in UNION {SeqsOfLen(Atoms, k) : k \in 1..MaxArgs}}

\* The templates with one block that holds two items, with the first
\* lexeme of each item.
PairCases ==
    {[text |-> InClause(c, BlockText(n, p \o <<",">> \o q)), heads |-> <<p[1], q[1]>>] :
        c \in Clauses \cup {0 - 1}, n \in BlockNames, p \in PairItems, q \in PairItems}

\* The first lexeme of the text an item node was parsed from.
HeadOf(node) ==
    CASE node.k = "Column" -> node.this.name
      [] OTHER -> Keyword(node)

\* The group node (the only one) of a statement, and the context it read.
TheGroup(stmt) == SelectSeq(NodesOf(stmt), IsGroup)[1]

TheGroupClause(trace) == SelectSeq(trace, LAMBDA t : t.macro # "OPT_BLOCK")[1].clause

TheBlock(stmt) == SelectSeq(NodesOf(stmt), LAMBDA n : n.k = "OptBlock")[1]

\* C16: the children of a macro node are the items of the source text, in
\* their order and number, and the generator writes them in that order and
\* number: nothing is reordered, merged or dropped.
C16_ChildOrder ==
    /\ \A gc \in GroupCases :
          (gc.text = rt_text /\ RtParsed) =>
             LET g == TheGroup(rt_stmt.stmt)
                 clause == TheGroupClause(rt_stmt.trace)
                 nodes == [j \in 1..Len(gc.items) |-> ItemNode(gc.items[j], clause)]
             IN /\ g.this = nodes
                /\ RtGenerated =>
                     Occurs(<<gc.kw, " ", "(">> \o JoinItems(nodes) \o <<")">>, rt_sql)
                /\ rt_stmt2.ok => TheGroup(rt_stmt2.stmt).this = nodes
    /\ \A pc_ \in PairCases :
          (pc_.text = rt_text /\ RtParsed) =>
             LET b == TheBlock(rt_stmt.stmt)
             IN /\ [j \in 1..Len(b.blocks) |-> HeadOf(b.blocks[j])] = pc_.heads
                /\ rt_stmt2.ok =>
                     [j \in 1..Len(TheBlock(rt_stmt2.stmt).blocks) |->
                          HeadOf(TheBlock(rt_stmt2.stmt).blocks[j])] = pc_.heads

\* C16 happens: a group of two different items in an ORDER BY block was
\* parsed and generated.
C16_Witness ==
    /\ rt_pc = "reparsed"
    /\ rt_text = InClause(ORDER_BY,
                          BlockText("x", GroupText("LOOP", <<"a", "ASC", ",", "^b^", "=", "?">>)))
    /\ rt_stmt2.ok

(* ------------------------------------------------------------------ *)
(* Cleaning of raw texts, character by character (SpecClean)            *)
(* ------------------------------------------------------------------ *)
\* The longest raw text.
MaxLen == 4

\* The characters of the raw texts: blank, line break, backslash, n, the
\* braces, and a quote.
CleanChars == {" ", "\n", "\\", "n", "{", "}", "'"}

ClInit ==
    /\ cl_pc = "text"
    /\ cl_in \in SeqsUpTo(CleanChars, MaxLen)
    /\ cl_out = <<>>
    /\ cl_out2 = <<>>
    /\ RtIdle
    /\ MainStart(<<>>)
    /\ IsoIdle
    /\ LaterIdle

\* clean_sql = clean_sql_text(template['template'])
Clean ==
    /\ cl_pc = "text"
    /\ cl_out' = clean_sql_text(cl_in)
    /\ cl_pc' = "cleaned"
    /\ UNCHANGED <<cl_in, cl_out2, rt_vars, main_vars, iso_vars, later_vars>>

\* clean_sql_text applied to its own result
CleanAgain ==
    /\ cl_pc = "cleaned"
    /\ cl_out2' = clean_sql_text(cl_out)
    /\ cl_pc' = "again"
    /\ UNCHANGED <<cl_in, cl_out, rt_vars, main_vars, iso_vars, later_vars>>

ClNext == Clean \/ CleanAgain

SpecClean == ClInit /\ [][ClNext]_vars

\* The places of s where a backslash is followed by n.
EscapePairs(s) == {i \in 1..(Len(s) - 1) : s[i] = "\\" /\ s[i + 1] = "n"}

\* The k-th smallest member of the set S of numbers.
Nth(S, k) == CHOOSE x \in S : Cardinality({y \in S : y < x}) = k - 1

\* s with each backslash-n pair made a line break and each brace a bracket.
Replaced(s) ==
    LET kept == {i \in 1..Len(s) : (i - 1) \notin EscapePairs(s)}
        at(i) == IF i \in EscapePairs(s) THEN "\n"
                 ELSE IF s[i] = "{" THEN "["
                 ELSE IF s[i] = "}" THEN "]"
                 ELSE s[i]
    IN [k \in 1..Cardinality(kept) |-> at(Nth(kept, k))]

\* s without the white space at its two ends.
Trimmed(s) ==
    IF \A i \in 1..Len(s) : s[i] \in Whitespace THEN <<>>
    ELSE LET first == CHOOSE i \in 1..Len(s) :
                          s[i] \notin Whitespace /\ \A j \in 1..(i - 1) : s[j] \in Whitespace
             last == CHOOSE i \in 1..Len(s) :
                         s[i] \notin Whitespace /\ \A j \in (i + 1)..Len(s) : s[j] \in Whitespace
         IN [k \in 1..(last - first + 1) |-> s[first + k - 1]]

\* C12: clean_sql_text(s) is s with every backslash-n pair replaced by a
\* line break, then every brace by the bracket (inside quotes too), then
\* the white space at both ends removed; the result holds no brace and no
\* backslash-n pair, and cleaning it again changes nothing.
C12_Cleaning ==
    /\ cl_pc \in {"cleaned", "again"} =>
          /\ cl_out = Trimmed(Replaced(cl_in))
          /\ \A i \in 1..Len(cl_out) : cl_out[i] \notin {"{", "}"}
          /\ EscapePairs(cl_out) = {}
    /\ cl_pc = "again" => cl_out2 = cl_out

\* C12 happens: a text with a blank in front, a brace inside quotes and an
\* escaped line break at its end was cleaned, twice.
C12_Witness ==
    /\ cl_pc = "again"
    /\ cl_in = <<" ", "'", "{", "\\">> \/ cl_in = <<" ", "{", "\\", "n">>
    /\ cl_out2 = cl_out

(* ------------------------------------------------------------------ *)
(* Two verifiers with different histories (SpecIso)                     *)
(* ------------------------------------------------------------------ *)
\* The most templates a verifier has verified before the common one.
MaxEarlier == 2

\* Earlier templates: they leave the clause context at Projection, GroupBy,
\* OrderBy or Expression, and one fails in the middle of an ORDER BY block.
EarlierTemplates ==
    {InClause(c, BlockText("x", <<"a">>)) : c \in Clauses}
    \cup {InClause(ORDER_BY, BlockText("x", GroupText("REQUIRED", <<>>)))}

\* The templates both verifiers are given.
IsoTemplates ==
    {GroupText("REQUIRED", <<"a", "ASC">>),
     InClause(PROJECTION, GroupText("LOOP", <<"a", "AS", "c">>)),
     InClause(EXPRESSION, BlockText("x", GroupText("OPTIONAL", <<"a", "ASC">>))),
     InClause(ORDER_BY, BlockText("x", SubqueryList(BlockText("y", <<"a">>))
                                       \o <<",">> \o GroupText("LOOP", <<"a", "ASC">>))),
     InClause(ORDER_BY, BlockText("x", GroupText("REQUIRED", <<>>))),
     EndToEnd}

IsoInit ==
    /\ iso_pc = "run"
    /\ iso_left = <<EXPRESSION, EXPRESSION>>
    /\ iso_ran = <<0, 0>>
    /\ iso_text \in IsoTemplates
    /\ iso_result = <<NoVerdict, NoVerdict>>
    /\ RtIdle
    /\ MainStart(<<>>)
    /\ ClIdle
    /\ LaterIdle

\* What verify_sql gives for the statement result r (lines 224-237): True
\* with the regenerated text, or False.
Verdict(r) ==
    [called |-> TRUE, success |-> r.ok,
     sql_text |-> IF r.ok THEN generate(r.stmt) ELSE <<>>]

\* Verifier v calls verify_sql on an earlier template: parse_one makes its
\* parser (ParserInit) and the parse leaves opt_block_in_clause behind.
IsoEarlier(v) ==
    /\ iso_pc = "run"
    /\ iso_result[v] = NoVerdict
    /\ iso_ran[v] < MaxEarlier
    /\ \E t \in EarlierTemplates :
          iso_left' = [iso_left EXCEPT
                          ![v] = ParseWith(Tokenize(t), ParserInit(@)).opt_block_in_clause]
    /\ iso_ran' = [iso_ran EXCEPT ![v] = @ + 1]
    /\ UNCHANGED <<iso_pc, iso_text, iso_result, rt_vars, main_vars, cl_vars, later_vars>>

\* Verifier v calls verify_sql on the common template.
IsoVerify(v) ==
    /\ iso_pc = "run"
    /\ iso_result[v] = NoVerdict
    /\ LET r == ParseWith(Tokenize(iso_text), ParserInit(iso_left[v]))
       IN /\ iso_result' = [iso_result EXCEPT ![v] = Verdict(r)]
          /\ iso_left' = [iso_left EXCEPT ![v] = r.opt_block_in_clause]
    /\ UNCHANGED <<iso_pc, iso_ran, iso_text, rt_vars, main_vars, cl_vars, later_vars>>

IsoNext == \E v \in {1, 2} : IsoEarlier(v) \/ IsoVerify(v)

SpecIso == IsoInit /\ [][IsoNext]_vars

\* C17: two verifiers that have verified different earlier templates give
\* the same result (success value and regenerated text) for the same
\* template, and it is the result of verifying the template alone.
C17_NoCrossTemplateState ==
    /\ (iso_result[1] # NoVerdict /\ iso_result[2] # NoVerdict) =>
          iso_result[1] = iso_result[2]
    /\ \A v \in {1, 2} :
          iso_result[v] # NoVerdict =>
             iso_result[v].success = verify_sql(iso_text)

\* C17 happens: both verifiers gave their result, one after a template that
\* left the context at OrderBy (or failed there), the other with no
\* earlier template.
C17_Witness ==
    /\ iso_result[1] # NoVerdict /\ iso_result[2] # NoVerdict
    /\ iso_ran[1] > 0 /\ iso_ran[2] = 0
    /\ iso_text = GroupText("REQUIRED", <<"a", "ASC">>)

(* ------------------------------------------------------------------ *)
(* Claims on the clause context of blocks and their items (SpecRT)      *)
(* ------------------------------------------------------------------ *)
\* In the text: the block opened at token j (OPT_BLOCK name [) is still
\* open at token p.
OpenAt(toks, j, p) ==
    /\ toks[j] = "OPT_BLOCK"
    /\ j + 2 < p
    /\ \A k \in (j + 3)..p : BracketDepth(toks, k) > BracketDepth(toks, j + 2)

\* The openers of the blocks open at token p.
EnclosingBlocks(toks, p) == {j \in 1..(p - 1) : OpenAt(toks, j, p)}

\* The clause the parser set when it entered the block opened at token j.
ClauseSetAt(trace, j) ==
    (CHOOSE e \in Range(trace) : e.macro = "OPT_BLOCK" /\ e.at = j).clause

\* The context in force at token p: what the innermost block open there
\* was entered with, and Expression outside every block.
ContextInForce(toks, trace, p) ==
    IF EnclosingBlocks(toks, p) = {} THEN EXPRESSION
    ELSE ClauseSetAt(trace, CHOOSE j \in EnclosingBlocks(toks, p) :
                                \A i \in EnclosingBlocks(toks, p) : i <= j)

\* C18: the context a block was entered with does not outlive the block: a
\* group macro after the closing bracket, or in an outer block after a
\* nested block has closed, is parsed with the context of the innermost
\* block still open around it, and with Expression outside every block.
C18_ContextScoped ==
    RtParsed =>
        \A i \in 1..Len(rt_stmt.trace) :
            rt_stmt.trace[i].macro # "OPT_BLOCK" =>
                rt_stmt.trace[i].clause =
                    ContextInForce(rt_text, rt_stmt.trace, rt_stmt.trace[i].at)

\* In the text: the number of parentheses open before token i.
ParenDepth(toks, i) ==
    Cardinality({j \in 1..(i - 1) : toks[j] = "("})
    - Cardinality({j \in 1..(i - 1) : toks[j] = ")"})

ClauseKeywords == {"SELECT", "FROM", "WHERE", "GROUP BY", "ORDER BY"}

\* The clause keywords before token p of the query that token p is in: the
\* text has not left the keyword's query between the two.
KeywordsAbove(toks, p) ==
    {k \in 1..(p - 1) :
        /\ toks[k] \in ClauseKeywords
        /\ \A m \in k..p : ParenDepth(toks, m) >= ParenDepth(toks, k)}

\* The context of the clause that directly contains token p.
DirectClause(toks, p) ==
    IF KeywordsAbove(toks, p) = {} THEN EXPRESSION
    ELSE LET k == CHOOSE j \in KeywordsAbove(toks, p) :
                      \A i \in KeywordsAbove(toks, p) : i <= j
         IN CASE toks[k] = "SELECT" -> PROJECTION
              [] toks[k] = "GROUP BY" -> GROUP_BY
              [] toks[k] = "ORDER BY" -> ORDER_BY
              [] OTHER -> EXPRESSION

\* C19: the context given to a block-opener is that of the clause that
\* directly contains it: Projection in a SELECT list, GroupBy in GROUP BY,
\* OrderBy in ORDER BY, Expression otherwise, as in the WHERE clause of a
\* subquery that sits in a SELECT list, GROUP BY or ORDER BY.
C19_ContextResolution ==
    RtParsed =>
        \A i \in 1..Len(rt_stmt.trace) :
            rt_stmt.trace[i].macro = "OPT_BLOCK" =>
                rt_stmt.trace[i].clause = DirectClause(rt_text, rt_stmt.trace[i].at)

\* One item parsed on its own by the method of the clause context: the
\* whole result.
ItemParse(text, clause) ==
    Call(ItemMethod(clause), <<>>, text, 1, ParserState(clause), <<>>)

\* C20: an item written directly in a block body is parsed with the
\* sub-grammar of the block's clause context, as a group item is: where the
\* method of the clause takes the whole item, the block parses and its item
\* reads as the node that method gives (an ordered expression for a ASC in
\* ORDER BY, an alias for a AS c in a SELECT list).
C20_DirectItems ==
    \A c \in Clauses, n \in BlockNames, atom \in Atoms :
        (/\ RtTried
         /\ rt_text = InClause(c, BlockText(n, atom))
         /\ ItemParse(atom, c).st = "ok"
         /\ ItemParse(atom, c).pos = Len(atom) + 1) =>
            /\ RtParsed
            /\ Len(TheBlock(rt_stmt.stmt).blocks) = 1
            /\ Sql(TheBlock(rt_stmt.stmt).blocks[1]) = Sql(ItemParse(atom, c).node)

(* ------------------------------------------------------------------ *)
(* sql_pattern.py: the item tasks and their requests (SpecReq)          *)
(* ------------------------------------------------------------------ *)
\* The values of the earlier specifications while this one runs.
EarlierIdle == RtIdle /\ MainStart(<<>>) /\ ClIdle /\ IsoIdle

\* The most items of the input file, and the largest --max-concurrent.
MaxItems == 2

MaxConcurrent == 2

\* max_retries = 3 of send_request_async
max_retries == 3

\* The while condition of send_request_async, had it been written with <=.
RetryLoopInclusive(retry_count) == retry_count <= max_retries

\* while retry_count < max_retries
RetryLoop(retry_count) == retry_count < max_retries

\* asyncio.Semaphore.acquire, had it not counted the permit.
AcquiredUncounted(value) == value

\* asyncio.Semaphore: the value after acquire() and after release()
Acquired(value) == value - 1

Released(value) == value + 1

\* item_data of an input item: its caller field is a list with one caller,
\* is missing (has_caller FALSE), or is an empty list.
ItemData(kind) ==
    CASE kind = "caller" ->
            [function_definition |-> "orm", has_caller |-> TRUE, caller |-> <<"c1">>]
      [] kind = "no_caller" ->
            [function_definition |-> "orm", has_caller |-> FALSE, caller |-> <<>>]
      [] OTHER ->
            [function_definition |-> "orm", has_caller |-> TRUE, caller |-> <<>>]

\* The input files: up to MaxItems items; the last one may hold an empty
\* caller list.
ItemKindsOf(n, last) ==
    [i \in 1..n |-> IF i = n THEN last ELSE IF i % 2 = 1 THEN "caller" ELSE "no_caller"]

RequestInputs ==
    {ItemKindsOf(n, last) : n \in 1..MaxItems, last \in {"caller", "no_caller", "empty_list"}}

\* PROMPT_TEMPLATE_FIRST_ROUND.format(...), ..SECOND.., ..THIRD..: the
\* prompt of a round holds the item (rounds 1, 2) and the result of the
\* round before (rounds 2, 3).
Prompt(round, item_key, previous) ==
    [round |-> round, item |-> IF round = 3 THEN 0 ELSE item_key, previous |-> previous]

\* response.choices[0].message.content for a question, and the string
\* returned when every attempt raised.
ResponseContent(question) == [kind |-> "content", of_round |-> question.round]

FailureString(question) == [kind |-> "request failed", of_round |-> question.round]

\* A task of process_item before its first statement.
NewTask(kind) ==
    [pc |-> "start", item_data |-> ItemData(kind), round |-> 0, question |-> <<>>,
     retry_count |-> 0, attempts |-> 0, results |-> <<>>, prompts |-> <<>>,
     success |-> FALSE, formatted |-> "none"]

ReqInit ==
    /\ \E input \in RequestInputs : rq_task = [t \in 1..Len(input) |-> NewTask(input[t])]
    /\ rq_max \in 1..MaxConcurrent
    /\ rq_sem = rq_max
    /\ EarlierIdle
    /\ PjIdle
    /\ FpIdle

\* The task t calls send_request_async with the prompt of the round.
Asking(task, round, question) ==
    [task EXCEPT !.pc = "acquire", !.round = round, !.question = question,
                 !.retry_count = 0, !.attempts = 0,
                 !.prompts = Append(@, question)]

\* process_item from its first line to the first request (lines 308-326):
\* caller[0] raises on an empty list, and the except branch returns
\* success False.
StartItem(t) ==
    /\ t \in DOMAIN rq_task
    /\ rq_task[t].pc = "start"
    /\ rq_task' = [rq_task EXCEPT ![t] =
          IF rq_task[t].item_data.has_caller /\ rq_task[t].item_data.caller = <<>>
          THEN [@ EXCEPT !.pc = "done", !.success = FALSE, !.formatted = "none"]
          ELSE Asking(@, 1, Prompt(1, t, <<>>))]
    /\ UNCHANGED <<rq_max, rq_sem, rt_vars, main_vars, cl_vars, iso_vars, pj_vars, fp_vars>>

\* async with semaphore: a permit is taken; retry_count = 0; the loop is
\* entered and the first request is sent.
Acquire(t) ==
    /\ t \in DOMAIN rq_task
    /\ rq_task[t].pc = "acquire"
    /\ rq_sem > 0
    /\ rq_sem' = Acquired(rq_sem)
    /\ rq_task' = [rq_task EXCEPT ![t] =
          IF RetryLoop(0)
          THEN [@ EXCEPT !.pc = "attempt", !.retry_count = 0, !.attempts = 1]
          ELSE [@ EXCEPT !.pc = "returning", !.retry_count = 0]]
    /\ UNCHANGED <<rq_max, rt_vars, main_vars, cl_vars, iso_vars, pj_vars, fp_vars>>

\* process_item after send_request_async has returned value (lines 326-364):
\* the next round's prompt is built from it, or after the third round the
\* templates are parsed and the item is returned with success True.
Continue(task, t, value) ==
    LET got == [task EXCEPT !.results = Append(@, value)]
    IN IF task.round < 3
       THEN Asking(got, task.round + 1, Prompt(task.round + 1, t, value))
       ELSE [got EXCEPT !.pc = "done", !.success = TRUE,
                        !.formatted = IF value.kind = "content"
                                      THEN "templates" ELSE "error object"]

\* The request returns: the content is returned, the permit released.
AttemptReturns(t) ==
    /\ t \in DOMAIN rq_task
    /\ rq_task[t].pc = "attempt"
    /\ rq_sem' = Released(rq_sem)
    /\ rq_task' = [rq_task EXCEPT ![t] = Continue(@, t, ResponseContent(@.question))]
    /\ UNCHANGED <<rq_max, rt_vars, main_vars, cl_vars, iso_vars, pj_vars, fp_vars>>

\* The request raises: retry_count += 1, then asyncio.sleep(1).
AttemptRaises(t) ==
    /\ t \in DOMAIN rq_task
    /\ rq_task[t].pc = "attempt"
    /\ rq_task' = [rq_task EXCEPT ![t] =
          [@ EXCEPT !.pc = "sleep", !.retry_count = @ + 1]]
    /\ UNCHANGED <<rq_max, rq_sem, rt_vars, main_vars, cl_vars, iso_vars, pj_vars, fp_vars>>

\* The sleep ends: the loop sends the next request, or is left and the
\* failure string is returned, the permit released.
Wake(t) ==
    /\ t \in DOMAIN rq_task
    /\ rq_task[t].pc = "sleep"
    /\ IF RetryLoop(rq_task[t].retry_count)
       THEN /\ rq_task' = [rq_task EXCEPT ![t] =
                  [@ EXCEPT !.pc = "attempt", !.attempts = @ + 1]]
            /\ UNCHANGED rq_sem
       ELSE /\ rq_task' = [rq_task EXCEPT ![t] = Continue(@, t, FailureString(@.question))]
            /\ rq_sem' = Released(rq_sem)
    /\ UNCHANGED <<rq_max, rt_vars, main_vars, cl_vars, iso_vars, pj_vars, fp_vars>>

TaskStep(t) == StartItem(t) \/ Acquire(t) \/ AttemptReturns(t) \/ AttemptRaises(t) \/ Wake(t)

ReqNext ==
    \E t \in 1..MaxItems :
        StartItem(t) \/ Acquire(t) \/ AttemptReturns(t) \/ AttemptRaises(t) \/ Wake(t)

SpecReq == ReqInit /\ [][ReqNext]_vars

\* The event loop runs every task that can run, and each request returns
\* or raises.
SpecReqFair ==
    SpecReq /\ \A t \in 1..MaxItems : WF_vars(TaskStep(t))

\* The tasks inside the semaphore: sending a request or sleeping before
\* the next one.
Holders == {t \in DOMAIN rq_task : rq_task[t].pc \in {"attempt", "sleep"}}

\* The requests a task has finished, by what they returned.
Exhausted(task) == {r \in 1..Len(task.results) : task.results[r].kind = "request failed"}

Answered(task) == {r \in 1..Len(task.results) : task.results[r].kind = "content"}

\* C21: send_request_async makes at most 3 attempts; it returns the content
\* of the first attempt that succeeds and makes no attempt after it; when
\* all 3 attempts raise it returns the failure string, and the caller sees
\* no exception from a failed request.
C21_RequestTerminates ==
    /\ [](\A t \in DOMAIN rq_task :
            /\ rq_task[t].attempts <= 3
            /\ rq_task[t].pc = "attempt" => rq_task[t].attempts = rq_task[t].retry_count + 1)
    /\ [][\A t \in DOMAIN rq_task :
            LET before == rq_task[t]
                after == rq_task'[t]
            IN /\ (after.round = before.round /\ after.attempts > before.attempts) =>
                      (before.pc = "sleep" \/ before.attempts = 0)
               /\ Len(after.results) > Len(before.results) =>
                      \/ /\ before.pc = "attempt"
                         /\ after.results[Len(after.results)] = ResponseContent(before.question)
                      \/ /\ before.pc = "sleep"
                         /\ before.attempts = 3
                         /\ after.results[Len(after.results)] = FailureString(before.question)
               /\ (before.pc \in {"acquire", "attempt", "sleep"} /\ after.pc = "done") =>
                      after.success]_vars

\* C21 happens: a task got the failure string from one request, after 3
\* attempts, and the content from the next, after a retry.
C21_Witness ==
    \E t \in DOMAIN rq_task :
        /\ Len(rq_task[t].results) = 2
        /\ rq_task[t].results[1].kind = "request failed"
        /\ rq_task[t].results[2].kind = "content"
        /\ rq_task[t].pc = "attempt" /\ rq_task[t].attempts = 2

\* C22: at most max_concurrent tasks are inside the semaphore at once, a
\* request with its retries and sleeps counting as one holder; the permits
\* taken are exactly those of the holders, so none leaks; and every task
\* completes in the end, with all permits back.
C22_BoundedConcurrency ==
    /\ [](/\ Cardinality(Holders) <= rq_max
          /\ rq_sem = rq_max - Cardinality(Holders))
    /\ <>[](/\ \A t \in DOMAIN rq_task : rq_task[t].pc = "done"
            /\ rq_sem = rq_max)

\* C22 happens: every permit is taken, one holder sleeps between retries
\* and another task waits for a permit.
C22_Witness ==
    /\ Cardinality(Holders) = rq_max
    /\ \E t \in Holders : rq_task[t].pc = "sleep"
    /\ \E t \in DOMAIN rq_task : rq_task[t].pc = "acquire"

\* C23: process_item runs the three rounds in order, the result of each
\* round in the prompt of the next; an item is reported with success True
\* only if all three rounds returned a model response, and an item for
\* which a round exhausted its retries is reported with success False and
\* without formatted templates.
C23_ThreeRounds ==
    \A t \in DOMAIN rq_task :
        LET task == rq_task[t]
        IN /\ \A r \in 1..Len(task.prompts) :
                 /\ task.prompts[r].round = r
                 /\ r > 1 => task.prompts[r].previous = task.results[r - 1]
           /\ task.pc = "done" =>
                 /\ task.success => Answered(task) = {1, 2, 3}
                 /\ Exhausted(task) # {} => (~task.success /\ task.formatted = "none")

(* ------------------------------------------------------------------ *)
(* orm2sql_check.py: generation and verification requests (SpecCheck)   *)
(* ------------------------------------------------------------------ *)
\* The most functions of the input file.
MaxFunctions == 2

\* The callers lists a function of the input may have: none, one, two.
CallersOf(n) ==
    {<<>>, <<[code_value |-> <<"caller", n, 1>>]>>,
     <<[code_value |-> <<"caller", n, 1>>], [code_value |-> <<"caller", n, 2>>]>>}

\* function_info of the n-th function with the callers given.
FunctionInfo(n, callers) ==
    [function_name |-> n, function_definition |-> <<"definition", n>>,
     code_meta_data |-> <<"meta", n>>, callers |-> callers]

\* The input files: up to MaxFunctions functions.
FunctionLists ==
    UNION {{[n \in 1..k |-> FunctionInfo(n, cs[n])] :
                cs \in [1..k -> UNION {CallersOf(m) : m \in 1..k}]} : k \in 1..MaxFunctions}

\* No caller: the empty string of the code.
NoCaller == <<"caller", 0, 0>>

\* What gather gives for the generation task of function n: the generated
\* SQL, the failure string, or an exception.
GenerationResults(n) ==
    {[kind |-> "sql", of |-> n], [kind |-> "request failed", of |-> n],
     [kind |-> "exception", of |-> n]}

PjInit ==
    /\ pj_pc = "generate"
    /\ all_functions \in {fs \in FunctionLists :
                            \A n \in 1..Len(fs) : fs[n].callers \in CallersOf(n)}
    /\ pj_i = 1
    /\ caller = NoCaller
    /\ initial_results = <<>>
    /\ verify_tasks = <<>>
    /\ EarlierIdle
    /\ ReqIdle
    /\ FpIdle

\* One turn of the generation loop (lines 170-204): the local variable
\* caller is set to the function's first caller, or "", and the generation
\* request is created.
GenerateOne ==
    /\ pj_pc = "generate"
    /\ pj_i <= Len(all_functions)
    /\ caller' = IF Len(all_functions[pj_i].callers) > 0
                 THEN all_functions[pj_i].callers[1].code_value
                 ELSE NoCaller
    /\ pj_i' = pj_i + 1
    /\ UNCHANGED <<pj_pc, all_functions, initial_results, verify_tasks,
                   rt_vars, main_vars, cl_vars, iso_vars, req_vars, fp_vars>>

\* initial_results = await asyncio.gather(*initial_tasks,
\* return_exceptions=True) (lines 206-211)
GatherInitial ==
    /\ pj_pc = "generate"
    /\ pj_i > Len(all_functions)
    /\ initial_results' \in
          {rs \in [1..Len(all_functions) ->
                      UNION {GenerationResults(n) : n \in 1..Len(all_functions)}] :
              \A n \in 1..Len(all_functions) : rs[n].of = n}
    /\ pj_pc' = "verify"
    /\ pj_i' = 1
    /\ UNCHANGED <<all_functions, caller, verify_tasks,
                   rt_vars, main_vars, cl_vars, iso_vars, req_vars, fp_vars>>

\* One turn of the verification loop (lines 238-284): an exception is
\* skipped; else verify_sql_async is called with the SQL, the function's
\* definition and metadata, and the local variable caller.
VerifyOne ==
    /\ pj_pc = "verify"
    /\ pj_i <= Len(all_functions)
    /\ verify_tasks' =
          IF initial_results[pj_i].kind = "exception" THEN verify_tasks
          ELSE Append(verify_tasks,
                      [function_info |-> all_functions[pj_i],
                       sql_statement |-> initial_results[pj_i],
                       function_definition |-> all_functions[pj_i].function_definition,
                       code_meta_data |-> all_functions[pj_i].code_meta_data,
                       caller |-> caller])
    /\ pj_i' = pj_i + 1
    /\ UNCHANGED <<pj_pc, all_functions, caller, initial_results,
                   rt_vars, main_vars, cl_vars, iso_vars, req_vars, fp_vars>>

\* The verification loop ends.
VerifyDone ==
    /\ pj_pc = "verify"
    /\ pj_i > Len(all_functions)
    /\ pj_pc' = "done"
    /\ UNCHANGED <<all_functions, pj_i, caller, initial_results, verify_tasks,
                   rt_vars, main_vars, cl_vars, iso_vars, req_vars, fp_vars>>

PjNext == GenerateOne \/ GatherInitial \/ VerifyOne \/ VerifyDone

SpecCheck == PjInit /\ [][PjNext]_vars

\* The first caller of a function, empty when it has none.
FirstCaller(function_info) ==
    IF function_info.callers = <<>> THEN NoCaller
    ELSE function_info.callers[1].code_value

\* C24: the verification request created for a function is built from that
\* function's data: its own generated SQL, its own definition and metadata,
\* and its own first caller (empty when it has no callers).
C24_OwnData ==
    \A k \in 1..Len(verify_tasks) :
        LET request == verify_tasks[k]
            own == request.function_info
        IN /\ request.sql_statement = initial_results[own.function_name]
           /\ request.function_definition = own.function_definition
           /\ request.code_meta_data = own.code_meta_data
           /\ request.caller = FirstCaller(own)

(* ------------------------------------------------------------------ *)
(* fingerprint_change.py: the cache files and the commands (SpecFp)     *)
(* ------------------------------------------------------------------ *)
\* The most commands run one after the other.
MaxOps == 2

\* The cache files, and the backup save_fingerprints writes beside each.
CachePaths == {"A", "B"}

Bak(cache_path) == IF cache_path = "A" THEN "A.bak" ELSE "B.bak"

AllPaths == CachePaths \cup {Bak(cache_path) : cache_path \in CachePaths}

\* A file: absent, not loadable (cut short by a failed write or copy), or
\* the pickled pair (fingerprints, fingerprint_to_sql).
Absent == [kind |-> "absent"]

Corrupt == [kind |-> "corrupt"]

Cache(fingerprints, fingerprint_to_sql) ==
    [kind |-> "cache", fingerprints |-> fingerprints,
     fingerprint_to_sql |-> fingerprint_to_sql]

\* limit_examples=100, the default of add_fingerprints_from_sql_list
default_limit_examples == 100

\* The most examples merge_fingerprints keeps for a fingerprint.
merge_limit == 100

\* SQL texts are numbered.  process_single_sql (from a module outside this
\* file) gives the fingerprint of a text, "" when it has none; the feature
\* extractor gives its tables.
ManySql == [i \in 1..merge_limit |-> i]

FingerprintOf(sql_text) ==
    IF sql_text <= 101 THEN "f1" ELSE IF sql_text = 102 THEN "f2" ELSE ""

TablesOf(sql_text) == IF sql_text <= 101 THEN {"t1"} ELSE {"t2"}

\* The lists of SQL texts given to add.
SqlLists == {<<101>>, <<102, 103, 102>>, ManySql}

\* The lists of SQL texts the caches of the start were made from.
SeedLists == {<<>>, <<101, 102>>, ManySql}

\* load_fingerprints (lines 32-75): the pair of the file, and (set(), {})
\* when the file cannot be opened or unpickled.
load_fingerprints(file) ==
    IF file.kind = "cache"
    THEN [fingerprints |-> file.fingerprints, fingerprint_to_sql |-> file.fingerprint_to_sql]
    ELSE [fingerprints |-> {}, fingerprint_to_sql |-> <<>>]

\* What the file system does to a copy and to a write: it succeeds, fails
\* before anything is written, or fails after the file was cut.  The write
\* matters only after a copy that succeeded.
IoOutcomes ==
    [copy : {"ok"}, write : {"ok", "fails", "cut"}]
        \cup [copy : {"fails", "cut"}, write : {"ok"}]

\* As save_fingerprints, had the target been written before the backup is
\* made.
save_fingerprints_then_backup(fs, fingerprints, fingerprint_to_sql, cache_path, backup, io) ==
    LET written == [fs EXCEPT ![cache_path] = Cache(fingerprints, fingerprint_to_sql)]
        wants == backup /\ fs[cache_path].kind # "absent"
    IN [ok |-> TRUE,
        files |-> IF wants THEN [written EXCEPT ![Bak(cache_path)] = written[cache_path]]
                  ELSE written,
        events |-> <<[call |-> "open", path |-> cache_path, ok |-> TRUE]>>
                   \o (IF wants THEN <<[call |-> "copy2", path |-> cache_path, ok |-> TRUE]>>
                       ELSE <<>>)]

\* save_fingerprints (lines 77-109) on the file system fs: the files after
\* it, what it returns, and its calls of copy2 and open in order.
save_fingerprints(fs, fingerprints, fingerprint_to_sql, cache_path, backup, io) ==
    LET wants == backup /\ fs[cache_path].kind # "absent"
        copied == IF ~wants \/ io.copy = "fails" THEN fs
                  ELSE IF io.copy = "ok" THEN [fs EXCEPT ![Bak(cache_path)] = fs[cache_path]]
                  ELSE [fs EXCEPT ![Bak(cache_path)] = Corrupt]
        copy2 == IF wants
                 THEN <<[call |-> "copy2", path |-> cache_path, ok |-> io.copy = "ok"]>>
                 ELSE <<>>
        open == <<[call |-> "open", path |-> cache_path, ok |-> io.write # "fails"]>>
    IN IF wants /\ io.copy # "ok"
       THEN [ok |-> FALSE, files |-> copied, events |-> copy2]
       ELSE IF io.write = "ok"
       THEN [ok |-> TRUE,
             files |-> [copied EXCEPT ![cache_path] = Cache(fingerprints, fingerprint_to_sql)],
             events |-> copy2 \o open]
       ELSE IF io.write = "fails"
       THEN [ok |-> FALSE, files |-> copied, events |-> copy2 \o open]
       ELSE [ok |-> FALSE, files |-> [copied EXCEPT ![cache_path] = Corrupt],
             events |-> copy2 \o open]

\* d[key] = [] for a key the dictionary d does not hold
WithKey(d, key) ==
    [k \in DOMAIN d \cup {key} |-> IF k \in DOMAIN d THEN d[k] ELSE <<>>]

\* As WithoutKeys, had the mapping been left as it is.
WithoutKeysKept(d, keys) == d

\* del d[key] for each key of keys that d holds
WithoutKeys(d, keys) == [k \in DOMAIN d \ keys |-> d[k]]

\* As AddOne, without the test that the text is not in the list yet.
AddOneRepeating(st, sql, limit_examples) ==
    LET fingerprint == FingerprintOf(sql)
    IN IF fingerprint = "" THEN st
       ELSE LET d == IF fingerprint \in DOMAIN st.fingerprint_to_sql
                     THEN st.fingerprint_to_sql
                     ELSE WithKey(st.fingerprint_to_sql, fingerprint)
            IN [fingerprints |-> st.fingerprints \cup {fingerprint},
                fingerprint_to_sql |->
                    IF Len(d[fingerprint]) < limit_examples
                    THEN [d EXCEPT ![fingerprint] = Append(@, sql)]
                    ELSE d]

\* The body of the loop of add_fingerprints_from_sql_list (lines 262-275)
\* for one SQL text.
AddOne(st, sql, limit_examples) ==
    LET fingerprint == FingerprintOf(sql)
    IN IF fingerprint = "" THEN st
       ELSE LET d == IF fingerprint \in DOMAIN st.fingerprint_to_sql
                     THEN st.fingerprint_to_sql
                     ELSE WithKey(st.fingerprint_to_sql, fingerprint)
            IN [fingerprints |-> st.fingerprints \cup {fingerprint},
                fingerprint_to_sql |->
                    IF /\ Len(d[fingerprint]) < limit_examples
                       /\ \A i \in 1..Len(d[fingerprint]) : d[fingerprint][i] # sql
                    THEN [d EXCEPT ![fingerprint] = Append(@, sql)]
                    ELSE d]

RECURSIVE AddLoop(_, _, _, _, _)
\* The loop over sql_list from its i-th text to its j-th, in order: the
\* first half of the texts, then the second half.
AddLoop(sql_list, i, j, st, limit_examples) ==
    IF i > j THEN st
    ELSE IF i = j THEN AddOne(st, sql_list[i], limit_examples)
    ELSE Bind(AddLoop(sql_list, i, (i + j) \div 2, st, limit_examples),
              LAMBDA next : AddLoop(sql_list, (i + j) \div 2 + 1, j, next, limit_examples))

\* The body of the inner loop of merge_fingerprints (lines 516-518).
MergeOne(examples, sql) ==
    IF Len(examples) < merge_limit /\ \A i \in 1..Len(examples) : examples[i] # sql
    THEN Append(examples, sql) ELSE examples

RECURSIVE MergeList(_, _, _, _)
\* for sql in sql_list, from the i-th to the j-th, in order: the first half
\* of the texts, then the second half.
MergeList(examples, sql_list, i, j) ==
    IF i > j THEN examples
    ELSE IF i = j THEN MergeOne(examples, sql_list[i])
    ELSE Bind(MergeList(examples, sql_list, i, (i + j) \div 2),
              LAMBDA next : MergeList(next, sql_list, (i + j) \div 2 + 1, j))

\* One turn of the loop over cache_paths (lines 500-518): the loaded pair
\* is merged into the merged pair.
MergeCache(merged, loaded) ==
    LET d == loaded.fingerprint_to_sql
        m == merged.fingerprint_to_sql
    IN [fingerprints |-> merged.fingerprints \cup loaded.fingerprints,
        fingerprint_to_sql |->
            [fp \in DOMAIN m \cup DOMAIN d |->
                IF fp \notin DOMAIN d THEN m[fp]
                ELSE MergeList(IF fp \in DOMAIN m THEN m[fp] ELSE <<>>, d[fp], 1, Len(d[fp]))]]

RECURSIVE MergeLoop(_, _, _, _)
\* for cache_path in cache_paths, from the i-th on.
MergeLoop(fs, cache_paths, i, merged) ==
    IF i > Len(cache_paths) THEN merged
    ELSE Bind(MergeCache(merged, load_fingerprints(fs[cache_paths[i]])),
              LAMBDA next : MergeLoop(fs, cache_paths, i + 1, next))

\* The caches one add command makes from nothing.
SeedCaches ==
    {Absent} \cup
    {Bind(AddLoop(l, 1, Len(l), load_fingerprints(Absent), default_limit_examples),
          LAMBDA st : Cache(st.fingerprints, st.fingerprint_to_sql)) : l \in SeedLists}

NoCommand ==
    [command |-> "none", args |-> <<>>, saved |-> FALSE, result |-> FALSE, events |-> <<>>]

FpInit ==
    /\ fp_pc = "run"
    /\ \E a \in SeedCaches :
          files = [path \in AllPaths |-> IF path = "A" THEN a ELSE Absent]
    /\ ops = 0
    /\ last_op = NoCommand
    /\ EarlierIdle
    /\ ReqIdle
    /\ PjIdle

\* A command that returned before save_fingerprints.
Refused(command, args) ==
    /\ last_op' = [command |-> command, args |-> args, saved |-> FALSE,
                   result |-> FALSE, events |-> <<>>]
    /\ UNCHANGED files

\* A command that ended with save_fingerprints.
Saved(command, args, saved) ==
    /\ last_op' = [command |-> command, args |-> args, saved |-> TRUE,
                   result |-> saved.ok, events |-> saved.events]
    /\ files' = saved.files

\* A command runs: one more.
Counted ==
    /\ fp_pc = "run"
    /\ ops < MaxOps
    /\ ops' = ops + 1
    /\ UNCHANGED <<fp_pc, rt_vars, main_vars, cl_vars, iso_vars, req_vars, pj_vars>>

\* add_fingerprints_from_sql_list (lines 233-288)
AddFingerprints ==
    /\ Counted
    /\ \E sql_list \in SqlLists, input_cache \in CachePaths, limit_examples \in {1, default_limit_examples} :
       \E st \in {AddLoop(sql_list, 1, Len(sql_list),
                           load_fingerprints(files[input_cache]), limit_examples)} :
       \E output_cache \in CachePaths, io \in IoOutcomes :
          Saved("add",
                [sql_list |-> sql_list, input_cache |-> input_cache,
                 output_cache |-> output_cache, backup |-> TRUE,
                 limit_examples |-> limit_examples],
                save_fingerprints(files, st.fingerprints, st.fingerprint_to_sql,
                                  output_cache, TRUE, io))

\* As NoneToRemove, had remove_fingerprints not looked whether a requested
\* fingerprint exists.
NoneToRemoveUnchecked(fingerprints_to_remove, loaded) == FALSE

\* "if not existing_fingerprints" (lines 411-417)
NoneToRemove(fingerprints_to_remove, loaded) ==
    fingerprints_to_remove \cap loaded.fingerprints = {}

\* As Removed, had every fingerprint been taken out of the set.
RemovedAll(fingerprints, existing_fingerprints) == {}

\* "fingerprints -= existing_fingerprints" (line 424)
Removed(fingerprints, existing_fingerprints) == fingerprints \ existing_fingerprints

\* remove_fingerprints (lines 385-448)
RemoveFingerprints ==
    /\ Counted
    /\ \E fingerprints_to_remove \in {{"f1"}, {"f3"}, {"f1", "f3"}}, input_cache \in CachePaths,
          output_cache \in CachePaths, backup \in BOOLEAN, io \in IoOutcomes :
          LET args == [fingerprints_to_remove |-> fingerprints_to_remove,
                       input_cache |-> input_cache, output_cache |-> output_cache,
                       backup |-> backup]
              loaded == load_fingerprints(files[input_cache])
              existing_fingerprints == fingerprints_to_remove \cap loaded.fingerprints
          IN IF \/ files[input_cache].kind = "absent"
                \/ loaded.fingerprints = {}
                \/ NoneToRemove(fingerprints_to_remove, loaded)
             THEN Refused("remove", args)
             ELSE Saved("remove", args,
                        save_fingerprints(files,
                            Removed(loaded.fingerprints, existing_fingerprints),
                            WithoutKeys(loaded.fingerprint_to_sql, existing_fingerprints),
                            output_cache, backup, io))

\* The fingerprints with an example for which found holds (the loops at
\* lines 640-672 and 811-837).
WithExample(loaded, found(_)) ==
    {fp \in loaded.fingerprints :
        /\ fp \in DOMAIN loaded.fingerprint_to_sql
        /\ \E i \in 1..Len(loaded.fingerprint_to_sql[fp]) : found(loaded.fingerprint_to_sql[fp][i])}

\* remove_fingerprints_by_tables (lines 585-770); the tables file exists
\* and the extractor can be imported.
RemoveByTables ==
    /\ Counted
    /\ \E target_tables \in {{"t1"}, {"t3"}}, input_cache \in CachePaths,
          output_cache \in CachePaths, backup \in BOOLEAN, keep_only \in BOOLEAN,
          io \in IoOutcomes :
          LET args == [target_tables |-> target_tables, input_cache |-> input_cache,
                       output_cache |-> output_cache, backup |-> backup,
                       keep_only |-> keep_only]
              loaded == load_fingerprints(files[input_cache])
              target_fingerprints ==
                  WithExample(loaded, LAMBDA sql : TablesOf(sql) \cap target_tables # {})
              fingerprints_to_remove ==
                  IF keep_only THEN loaded.fingerprints \ target_fingerprints
                  ELSE target_fingerprints
          IN IF \/ files[input_cache].kind = "absent"
                \/ loaded.fingerprints = {}
                \/ target_fingerprints = {}
             THEN Refused("remove_by_tables", args)
             ELSE Saved("remove_by_tables", args,
                        save_fingerprints(files, loaded.fingerprints \ fingerprints_to_remove,
                            WithoutKeys(loaded.fingerprint_to_sql, fingerprints_to_remove),
                            output_cache, backup, io))

\* remove_fingerprints_by_regex (lines 772-912); a pattern is given by the
\* SQL texts it matches.
RemoveByRegex ==
    /\ Counted
    /\ \E matched \in {{102}, {103}}, input_cache \in CachePaths,
          output_cache \in CachePaths, backup \in BOOLEAN, io \in IoOutcomes :
          LET args == [matched |-> matched, input_cache |-> input_cache,
                       output_cache |-> output_cache, backup |-> backup]
              loaded == load_fingerprints(files[input_cache])
              fingerprints_to_remove == WithExample(loaded, LAMBDA sql : sql \in matched)
          IN IF \/ files[input_cache].kind = "absent"
                \/ loaded.fingerprints = {}
                \/ fingerprints_to_remove = {}
             THEN Refused("remove_by_regex", args)
             ELSE Saved("remove_by_regex", args,
                        save_fingerprints(files, loaded.fingerprints \ fingerprints_to_remove,
                            WithoutKeys(loaded.fingerprint_to_sql, fingerprints_to_remove),
                            output_cache, backup, io))

\* merge_fingerprints (lines 478-532)
MergeFingerprints ==
    /\ Counted
    /\ \E cache_paths \in {<<"A">>, <<"A", "B">>, <<"B", "A">>} :
       \E merged \in {MergeLoop(files, cache_paths, 1, load_fingerprints(Absent))} :
       \E output_cache \in CachePaths, io \in IoOutcomes :
          LET args == [cache_paths |-> cache_paths, output_cache |-> output_cache,
                       backup |-> TRUE]
          IN IF \E i \in 1..Len(cache_paths) : files[cache_paths[i]].kind = "absent"
             THEN Refused("merge", args)
             ELSE Saved("merge", args,
                        save_fingerprints(files, merged.fingerprints,
                            merged.fingerprint_to_sql, output_cache, TRUE, io))

FpNext ==
    \/ AddFingerprints
    \/ RemoveFingerprints
    \/ RemoveByTables
    \/ RemoveByRegex
    \/ MergeFingerprints

SpecFp == FpInit /\ [][FpNext]_vars

(* ------------------------------------------------------------------ *)
(* Claims about the cache files                                         *)
(* ------------------------------------------------------------------ *)
\* The caches on the file system.
CachePathsNow == {path \in AllPaths : files[path].kind = "cache"}

NoRepeat(examples) ==
    \A i \in 1..Len(examples) : \A j \in 1..Len(examples) :
        i # j => examples[i] # examples[j]

\* C25: after any commands no example list of any cache holds a SQL text
\* twice; a successful add leaves as loaded every list that already held
\* limit_examples entries and makes no list longer than the larger of its
\* loaded length and limit_examples; a successful merge writes lists of at
\* most 100 entries.
C25_ExampleBound ==
    /\ [](\A path \in CachePathsNow : \A fp \in DOMAIN files[path].fingerprint_to_sql :
             NoRepeat(files[path].fingerprint_to_sql[fp]))
    /\ [][(last_op'.command = "add" /\ last_op'.result) =>
            LET loaded == load_fingerprints(files[last_op'.args.input_cache]).fingerprint_to_sql
                saved == files'[last_op'.args.output_cache].fingerprint_to_sql
                limit_examples == last_op'.args.limit_examples
            IN \A fp \in DOMAIN saved :
                  IF fp \in DOMAIN loaded /\ Len(loaded[fp]) >= limit_examples
                  THEN saved[fp] = loaded[fp]
                  ELSE Len(saved[fp]) <= limit_examples]_vars
    /\ [][(last_op'.command = "merge" /\ last_op'.result) =>
            \A fp \in DOMAIN files'[last_op'.args.output_cache].fingerprint_to_sql :
                Len(files'[last_op'.args.output_cache].fingerprint_to_sql[fp]) <= merge_limit]_vars

\* An add of a hundred texts to a list of one stopped at a hundred entries:
\* the last text was not appended.
C25_Witness ==
    /\ last_op.command = "add"
    /\ last_op.result
    /\ last_op.args.sql_list = ManySql
    /\ last_op.args.limit_examples = default_limit_examples
    /\ LET saved == files[last_op.args.output_cache]
       IN /\ saved.kind = "cache"
          /\ "f1" \in DOMAIN saved.fingerprint_to_sql
          /\ Len(saved.fingerprint_to_sql["f1"]) = default_limit_examples
          /\ saved.fingerprint_to_sql["f1"][1] = 101
          /\ saved.fingerprint_to_sql["f1"][100] = 99

\* C26: in every cache on the file system the keys of the mapping are
\* fingerprints of the set, after any commands on caches that began so.
C26_KeysInSet ==
    \A path \in CachePathsNow :
        DOMAIN files[path].fingerprint_to_sql \subseteq files[path].fingerprints

\* A removal by pattern took one fingerprint of two out of the set and out
\* of the mapping.
C26_Witness ==
    /\ last_op.command = "remove_by_regex"
    /\ last_op.result
    /\ files[last_op.args.output_cache].kind = "cache"
    /\ files[last_op.args.output_cache].fingerprints = {"f1"}
    /\ DOMAIN files[last_op.args.output_cache].fingerprint_to_sql = {"f1"}

\* C27: a remove_fingerprints that returned True saved a cache without the
\* requested fingerprints that were loaded, in the set and among the keys,
\* and with every other fingerprint and example list as loaded.
C27_RemoveFrame ==
    [][(last_op'.command = "remove" /\ last_op'.result) =>
          LET loaded == load_fingerprints(files[last_op'.args.input_cache])
              saved == files'[last_op'.args.output_cache]
              existing == last_op'.args.fingerprints_to_remove \cap loaded.fingerprints
          IN /\ saved.kind = "cache"
             /\ saved.fingerprints = loaded.fingerprints \ existing
             /\ DOMAIN saved.fingerprint_to_sql = DOMAIN loaded.fingerprint_to_sql \ existing
             /\ \A fp \in DOMAIN saved.fingerprint_to_sql :
                    saved.fingerprint_to_sql[fp] = loaded.fingerprint_to_sql[fp]]_vars

\* Of two requested fingerprints one was in the cache: it is gone, the
\* other fingerprint of the cache and its examples stayed.
C27_Witness ==
    /\ last_op.command = "remove"
    /\ last_op.result
    /\ last_op.args.fingerprints_to_remove = {"f1", "f3"}
    /\ files[last_op.args.output_cache].kind = "cache"
    /\ files[last_op.args.output_cache].fingerprints = {"f2"}
    /\ files[last_op.args.output_cache].fingerprint_to_sql = [fp \in {"f2"} |-> <<102>>]

\* C28: a remove_fingerprints whose input is missing, loads as empty, or
\* holds none of the requested fingerprints returns False without a call
\* of save_fingerprints, and no file is made or changed.
C28_RemoveRefused ==
    [][(/\ last_op'.command = "remove"
        /\ LET loaded == load_fingerprints(files[last_op'.args.input_cache])
           IN \/ files[last_op'.args.input_cache].kind = "absent"
              \/ loaded.fingerprints = {}
              \/ last_op'.args.fingerprints_to_remove \cap loaded.fingerprints = {})
       => /\ ~last_op'.result
          /\ ~last_op'.saved
          /\ last_op'.events = <<>>
          /\ files' = files]_vars

\* A removal was asked of a file that is there and cannot be loaded.
C28_Witness ==
    /\ last_op.command = "remove"
    /\ ~last_op.saved
    /\ files[last_op.args.input_cache].kind = "corrupt"
    /\ files[Bak(last_op.args.input_cache)].kind = "cache"

\* C29: a save with backup over a target that exists first copies the
\* target, and opens it for writing only after a copy that succeeded, so
\* that the backup holds the previous content; after a copy that failed it
\* returns False, the target is as it was and was never opened.
C29_BackupFirst ==
    [][(/\ last_op'.saved
        /\ last_op'.args.backup
        /\ files[last_op'.args.output_cache].kind # "absent")
       => LET target == last_op'.args.output_cache
              events == last_op'.events
          IN /\ Len(events) >= 1
             /\ events[1].call = "copy2"
             /\ \A i \in 1..Len(events) : events[i].call = "open" => i > 1 /\ events[1].ok
             /\ events[1].ok => files'[Bak(target)] = files[target]
             /\ ~events[1].ok => /\ ~last_op'.result
                                 /\ files'[target] = files[target]
                                 /\ Len(events) = 1]_vars

\* A cache was written over another one, and the backup holds the other.
C29_Witness ==
    /\ last_op.saved
    /\ last_op.result
    /\ last_op.args.backup
    /\ Len(last_op.events) = 2
    /\ last_op.events[1].call = "copy2"
    /\ files[Bak(last_op.args.output_cache)].kind = "cache"
    /\ files[last_op.args.output_cache].kind = "cache"
    /\ files[Bak(last_op.args.output_cache)] # files[last_op.args.output_cache]

====
